---- MODULE Spec2Model ----
(***************************************************************************)
(* uhyve: the main thread of VirtualMachine::run, one thread per vCPU      *)
(* (VirtualCPU::run_vcpu), the tap poll thread, the freeze protocol of     *)
(* handle_checkpoint / handle_migration and the hypercall decoder.         *)
(***************************************************************************)
EXTENDS Integers, Sequences, FiniteSets, TLC

(* ---------------------------------------------------------------- bounds *)
NumCpus     == 2      \* largest num_cpus of a modelled VM
MaxTick     == 1      \* one-second ticks the model lets pass
MaxInterval == 1      \* largest configured checkpoint interval
MaxPackets  == 1      \* packets that arrive on the tap
GenMod      == 2      \* generation_id of the barrier is kept modulo GenMod
UsizeBits   == 16     \* width the model gives usize (64 in the build)
MaxHostRet  == 1      \* largest byte count / descriptor a host call returns
MaxCalls    == 4      \* calls of handle_checkpoint in a run
MaxEntry    == 4096   \* largest entry point of a checkpoint config
MaxFd       == 4      \* largest descriptor the guest passes
MaxIrq      == 2      \* writes to the eventfd the model lets happen
MaxText     == 3      \* characters of a text given on the command line
MaxGroup    == 3      \* hex digits between two colons of a MAC text

UsizeMod == 2 ^ UsizeBits

(* ------------------------------------------------------- hypercall ports *)
PORT_WRITE    == 1024
PORT_OPEN     == 1088
PORT_CLOSE    == 1152
PORT_READ     == 1280
PORT_EXIT     == 1344
PORT_LSEEK    == 1408
PORT_NETINFO  == 1536
PORT_NETWRITE == 1600
PORT_NETREAD  == 1664
PORT_NETSTAT  == 1792
PORT_CMDSIZE  == 1856
PORT_CMDVAL   == 1920
PORT_UART     == 2048

HypercallPorts == { PORT_WRITE, PORT_OPEN, PORT_CLOSE, PORT_READ, PORT_EXIT,
                    PORT_LSEEK, PORT_NETINFO, PORT_NETWRITE, PORT_NETREAD,
                    PORT_NETSTAT, PORT_CMDSIZE, PORT_CMDVAL, PORT_UART }

\* a port the guest may use that is no hypercall port
UnknownPorts == { 1025 }

ExitReasons == { "IO", "HLT", "MMIO", "FAIL_ENTRY", "INTERNAL_ERROR",
                 "SHUTDOWN", "DEBUG", "UNKNOWN" }

VARIABLES
  cfg,             \* num_cpus, IsleParameterUhyve (checkpoint, migration_support,
                   \* netif) and the exits the guest program performs
  running,         \* ControlData.running
  interrupt,       \* ControlData.interrupt
  count,           \* Barrier: arrived parties of the current generation
  generation_id,   \* Barrier: generation
  mpc,             \* position of the main thread
  mgen,            \* local_gen of the main thread inside Barrier::wait
  freeze,          \* "none" | "checkpoint" | "migration"
  work_ok,         \* result of create_checkpoint / run_migration of the freeze
  kidx,            \* index of the next thread to signal
  tick,            \* tick counter of run()
  checkpoint_num,  \* VirtualMachine.checkpoint_num
  num_before,      \* checkpoint_num when the running handle_checkpoint was called
  thread_handles,  \* VirtualMachine.thread_handles (vCPU ids)
  result,          \* result of stop() / run()
  done,            \* the done channel of vCPU 0 is ready
  pc,              \* position of every vCPU thread
  lgen,            \* local_gen of every vCPU thread inside Barrier::wait
  sigpending,      \* SIGUSR2 pending for the thread
  blocked,         \* SIGUSR2 blocked in the thread's mask
  handler,         \* a SIGUSR2 handler is installed (process wide)
  killed,          \* the process was terminated by SIGUSR2's default action
  kvm_run,         \* exit information of the vCPU's run page
  args,            \* argument block of the hypercall in guest memory
  hostret,         \* what the host call of the vCPU's last request returned
  exitcode,        \* ExitCode returned by run_vcpu
  mboot20,         \* mboot[0x20], written by the guest
  mboot30,         \* mboot[0x30]
  pollpc,          \* position of the tap poll thread
  tap,             \* packets readable on the tap
  irq,             \* times the eventfd was written
  inp,             \* the call under study: a function of the program and its
                   \* arguments
  out              \* what that call returned and did

vars == << cfg, running, interrupt, count, generation_id, mpc, mgen, freeze,
           work_ok, kidx, tick, checkpoint_num, num_before, thread_handles,
           result, done, pc, lgen, sigpending, blocked, handler, killed,
           kvm_run, args, hostret, exitcode, mboot20, mboot30, pollpc, tap, irq,
           inp, out >>

CPUs    == 0 .. (cfg.num_cpus - 1)
\* mutant: the barrier is built for the vCPU threads alone
PartiesVcpusOnly == cfg.num_cpus
Parties == cfg.num_cpus + 1      \* Barrier::new(num_cpus + 1)

(* ------------------------------------------------------------ data types *)
NoErr == [kind |-> "none", msg |-> "", port |-> 0]
Protocol(m, p) == [kind |-> "Protocol", msg |-> m, port |-> p]
IOCTLRun == [kind |-> "IOCTL", msg |-> "Run", port |-> 0]
TranslationFault == [kind |-> "TranslationFault", msg |-> "rip", port |-> 0]
KVMDebug == [kind |-> "KVMDebug", msg |-> "", port |-> 0]

NoExit       == [tag |-> "none", code |-> 0, err |-> NoErr]
Innocent     == [tag |-> "Innocent", code |-> 0, err |-> NoErr]
CauseOk(c)   == [tag |-> "Cause", code |-> c, err |-> NoErr]
CauseErr(e)  == [tag |-> "Cause", code |-> 0, err |-> e]

NoRun  == [exit_reason |-> "none", port |-> 0]
NoArgs == [fd |-> 0, name |-> "", len |-> 0, ret |-> 0, offset |-> 0,
           arg |-> 0]

\* `v as usize` of a host return value
AsUsize(v) == v % UsizeMod

(* ------------------------------------------------------------- from_mem *)
\* mutant: a port that is no hypercall port is taken for the UART
PortSyscallLax(p) ==
  CASE p = 1024 -> "Write" [] p = 1088 -> "Open" [] p = 1152 -> "Close"
    [] p = 1280 -> "Read" [] p = 1344 -> "Exit" [] p = 1408 -> "LSeek"
    [] p = 1536 -> "NetInfo" [] p = 1600 -> "NetWrite" [] p = 1664 -> "NetRead"
    [] p = 1792 -> "NetStat" [] p = 1856 -> "CmdSize" [] p = 1920 -> "CmdVal"
    [] OTHER -> "UART"

PortSyscall(p) ==
  CASE p = PORT_UART     -> "UART"
    [] p = PORT_WRITE    -> "Write"
    [] p = PORT_READ     -> "Read"
    [] p = PORT_CLOSE    -> "Close"
    [] p = PORT_OPEN     -> "Open"
    [] p = PORT_LSEEK    -> "LSeek"
    [] p = PORT_EXIT     -> "Exit"
    [] p = PORT_NETINFO  -> "NetInfo"
    [] p = PORT_NETWRITE -> "NetWrite"
    [] p = PORT_NETREAD  -> "NetRead"
    [] p = PORT_NETSTAT  -> "NetStat"
    [] p = PORT_CMDSIZE  -> "CmdSize"
    [] p = PORT_CMDVAL   -> "CmdVal"
    [] OTHER             -> "unhandled"

\* Syscall::from_mem: the typed request of a run page, or a Protocol error
from_mem(run) ==
  IF run.exit_reason # "IO"
    THEN [ok |-> TRUE, sc |-> "Other", err |-> NoErr]
    ELSE IF PortSyscall(run.port) = "unhandled"
      THEN [ok |-> FALSE, sc |-> "none",
            err |-> Protocol("KVM: unhandled KVM_EXIT_IO at port", run.port)]
      ELSE [ok |-> TRUE, sc |-> PortSyscall(run.port), err |-> NoErr]

(* ---------------------------------------------------------- Syscall::run *)
\* fs::canonicalize(name) in a file system where /tmp/kvmlink is a symbolic
\* link to /dev/kvm and /tmp/missing does not exist
canonicalize(name) ==
  CASE name = "/tmp/kvmlink" -> [ok |-> TRUE, path |-> "/dev/kvm"]
    [] name = "/tmp/missing" -> [ok |-> FALSE, path |-> ""]
    [] OTHER -> [ok |-> TRUE, path |-> name]

\* fs::canonicalize(name).map(|path| path == "/dev/kvm").unwrap_or(false)
IsKvm(name) ==
  LET c == canonicalize(name) IN IF c.ok THEN c.path = "/dev/kvm" ELSE FALSE

\* the error of Syscall::Other
OtherError(reason) ==
  CASE reason = "HLT" ->
         Protocol("Guest has halted the CPU, this is considered as a normal exit.", 0)
    [] reason = "MMIO" -> Protocol("KVM: unhandled KVM_EXIT_MMIO", 0)
    [] reason = "FAIL_ENTRY" -> Protocol("KVM: entry failure", 0)
    [] reason = "INTERNAL_ERROR" -> Protocol("KVM: internal error exit", 0)
    [] reason = "SHUTDOWN" -> Protocol("KVM: receive shutdown command", 0)
    [] reason = "DEBUG" -> KVMDebug
    [] OTHER -> Protocol("KVM: unhandled exit", 0)

\* Ok(Return::Continue) with the argument block left in guest memory; n: the
\* request has called NetworkInterface::notify
Continue(a, n) ==
  [ret |-> "Continue", code |-> 0, err |-> NoErr, args |-> a, notify |-> n]

\* the arms of Syscall::run; h is what the host call of the arm returns
WriteRun(a, h) == Continue([a EXCEPT !.len = AsUsize(h)], FALSE)
ReadRun(a, h) == Continue([a EXCEPT !.ret = h], FALSE)
ExitRun(a) ==
  [ret |-> "Exit", code |-> a.arg, err |-> NoErr, args |-> a, notify |-> FALSE]
\* mutant: only the literal name /dev/kvm is refused
OpenRunLiteral(a, h) ==
  Continue([a EXCEPT !.ret = IF a.name = "/dev/kvm" THEN -1 ELSE h], FALSE)
OpenRun(a, h) ==
  Continue([a EXCEPT !.ret = IF IsKvm(a.name) THEN -1 ELSE h], FALSE)
\* mutant: descriptor 2 is closed on the host as well
CloseRunStderr(a, h) == Continue([a EXCEPT !.ret = IF a.fd >= 2 THEN h ELSE 0], FALSE)
CloseRun(a, h) == Continue([a EXCEPT !.ret = IF a.fd > 2 THEN h ELSE 0], FALSE)
LSeekRun(a, h) == Continue([a EXCEPT !.offset = h], FALSE)
\* mutant: a failed write to the tap leaves ret as the guest set it
NetWriteRunSilent(a, h) ==
  IF h >= 0 THEN Continue([a EXCEPT !.ret = 0, !.len = AsUsize(h)], FALSE)
            ELSE Continue(a, FALSE)
NetWriteRun(a, h) ==
  IF h >= 0 THEN Continue([a EXCEPT !.ret = 0, !.len = AsUsize(h)], FALSE)
            ELSE Continue([a EXCEPT !.ret = -1], FALSE)
\* mutant: a failed read from the tap does not call notify()
NetReadRunNoNotify(a, h, net) ==
  IF h >= 0 THEN Continue([a EXCEPT !.ret = 0, !.len = AsUsize(h)], FALSE)
            ELSE Continue([a EXCEPT !.ret = -1], FALSE)
NetReadRun(a, h, net) ==
  IF h >= 0 THEN Continue([a EXCEPT !.ret = 0, !.len = AsUsize(h)], FALSE)
            ELSE Continue([a EXCEPT !.ret = -1], net)
NetStatRun(a, net) == Continue([a EXCEPT !.ret = IF net THEN 1 ELSE 0], FALSE)
OtherRun(a, reason) ==
  [ret |-> "Err", code |-> 0, err |-> OtherError(reason), args |-> a,
   notify |-> FALSE]

\* Syscall::run on request sc with argument block a; h is what the host call
\* made by the request returns, net whether a NetworkInterface exists
SyscallRun(sc, a, h, net, reason) ==
  CASE sc = "Write"    -> WriteRun(a, h)
    [] sc = "Read"     -> ReadRun(a, h)
    [] sc = "Exit"     -> ExitRun(a)
    [] sc = "Open"     -> OpenRun(a, h)
    [] sc = "Close"    -> CloseRun(a, h)
    [] sc = "LSeek"    -> LSeekRun(a, h)
    [] sc = "NetWrite" -> NetWriteRun(a, h)
    [] sc = "NetRead"  -> NetReadRun(a, h, net)
    [] sc = "NetStat"  -> NetStatRun(a, net)
    [] sc = "Other"    -> OtherRun(a, reason)
    [] OTHER           -> Continue(a, FALSE)   \* UART, NetInfo, CmdSize, CmdVal

\* the request performs a host call (write, read, open, close, lseek)
HostCall(sc, a) ==
  \/ sc \in { "Write", "Read", "LSeek", "NetWrite", "NetRead" }
  \/ sc = "Open" /\ ~IsKvm(a.name)
  \/ sc = "Close" /\ a.fd > 2

\* the host call the request makes, with the descriptor or name it passes
NoHostOp == [fn |-> "none", fd |-> 0, name |-> ""]
HostOp(sc, a) ==
  IF ~HostCall(sc, a) THEN NoHostOp
  ELSE CASE sc = "Open" -> [fn |-> "open", fd |-> 0, name |-> a.name]
         [] sc = "Close" -> [fn |-> "close", fd |-> a.fd, name |-> ""]
         [] sc = "Write" -> [fn |-> "write", fd |-> a.fd, name |-> ""]
         [] sc = "Read" -> [fn |-> "read", fd |-> a.fd, name |-> ""]
         [] sc = "LSeek" -> [fn |-> "lseek", fd |-> a.fd, name |-> ""]
         [] sc = "NetWrite" -> [fn |-> "write", fd |-> -1, name |-> "tap"]
         [] OTHER -> [fn |-> "read", fd |-> -1, name |-> "tap"]

(* ------------------------------------------------------------- Barrier *)
\* Barrier::wait, first half: count the arrival; the last party resets the
\* count and starts the next generation
BarrierLast == count + 1 >= Parties
BarrierCount == IF BarrierLast THEN 0 ELSE count + 1
BarrierGen == IF BarrierLast THEN (generation_id + 1) % GenMod ELSE generation_id

ctl == << running, interrupt >>
bar == << count, generation_id >>
mainv == << mpc, mgen, freeze, work_ok, kidx, tick, checkpoint_num,
            num_before, thread_handles, result >>
sigv == << sigpending, blocked, handler, killed >>
guestv == << kvm_run, args, hostret, mboot20, mboot30 >>
netv == << pollpc, tap, irq >>
purev == << inp, out >>
\* the state of the virtual machine and its threads
vmv == << cfg, ctl, bar, mainv, done, pc, lgen, sigv, guestv, exitcode, netv >>

(* ----------------------------------------------------------------- Init *)
InitState(c) ==
  /\ cfg = c
  /\ running = FALSE
  /\ interrupt = FALSE
  /\ count = 0
  /\ generation_id = 0
  /\ mpc = "run"
  /\ mgen = 0
  /\ freeze = "none"
  /\ work_ok = TRUE
  /\ kidx = 0
  /\ tick = 0
  /\ checkpoint_num = 0
  /\ num_before = 0
  /\ thread_handles = << >>
  /\ result = "none"
  /\ done = FALSE
  /\ pc = [i \in 0 .. (c.num_cpus - 1) |-> "unspawned"]
  /\ lgen = [i \in 0 .. (c.num_cpus - 1) |-> 0]
  /\ sigpending = [i \in 0 .. (c.num_cpus - 1) |-> FALSE]
  /\ blocked = [i \in 0 .. (c.num_cpus - 1) |-> FALSE]
  /\ handler = FALSE
  /\ killed = FALSE
  /\ kvm_run = [i \in 0 .. (c.num_cpus - 1) |-> NoRun]
  /\ args = [i \in 0 .. (c.num_cpus - 1) |-> NoArgs]
  /\ hostret = [i \in 0 .. (c.num_cpus - 1) |-> 0]
  /\ exitcode = [i \in 0 .. (c.num_cpus - 1) |-> NoExit]
  /\ mboot20 = 0
  /\ mboot30 = 0
  /\ pollpc = "off"
  /\ tap = 0
  /\ irq = 0

(* ---------------------------------------------------- VirtualMachine::run *)
\* run(): running = true, the NetworkInterface (its constructor starts the
\* poll thread) and, when the constructor fails, the early return
RunStart ==
  /\ mpc = "run" /\ ~killed
  /\ running' = TRUE
  /\ \/ /\ mpc' = "spawn"
        /\ pollpc' = IF cfg.netif THEN "poll" ELSE "off"
        /\ result' = result
     \/ /\ cfg.netif
        /\ mpc' = "failed"
        /\ pollpc' = pollpc
        /\ result' = "Err"
  /\ UNCHANGED << cfg, purev, interrupt, bar, mgen, freeze, work_ok, kidx, tick,
                  checkpoint_num, num_before, thread_handles, done, pc, lgen, sigv,
                  guestv, exitcode, tap, irq >>

\* VirtualCPU::run for the next vCPU: the thread exists and has sent its id
Spawn ==
  /\ mpc = "spawn" /\ ~killed
  /\ LET k == Len(thread_handles) IN
       /\ pc' = [pc EXCEPT ![k] = "spin"]
       /\ thread_handles' = Append(thread_handles, k)
       /\ mpc' = IF k + 1 = cfg.num_cpus THEN "select" ELSE "spawn"
  /\ UNCHANGED << cfg, purev, ctl, bar, mgen, freeze, work_ok, kidx, tick,
                  checkpoint_num, num_before, result, done, lgen, sigv, guestv, exitcode,
                  netv >>

\* the model follows the ticks of MaxTick checkpoint intervals
TickBound == MaxTick * (IF cfg.checkpoint > 1 THEN cfg.checkpoint ELSE 1)

\* mutant: a checkpoint on every tick once an interval is configured
TickEvery ==
  /\ mpc = "select" /\ ~killed
  /\ tick < TickBound
  /\ tick' = tick + 1
  /\ IF cfg.checkpoint > 0
       THEN mpc' = "h_set" /\ freeze' = "checkpoint"
       ELSE mpc' = mpc /\ freeze' = freeze
  /\ num_before' = checkpoint_num
  /\ UNCHANGED << cfg, purev, ctl, bar, mgen, work_ok, kidx, checkpoint_num,
                  thread_handles, result, done, pc, lgen, sigv, guestv,
                  exitcode, netv >>

\* the tick arm of the select
Tick ==
  /\ mpc = "select" /\ ~killed
  /\ tick < TickBound
  /\ tick' = tick + 1
  /\ IF cfg.checkpoint > 0 /\ (tick + 1) % cfg.checkpoint = 0
       THEN mpc' = "h_set" /\ freeze' = "checkpoint"
       ELSE mpc' = mpc /\ freeze' = freeze
  /\ num_before' = checkpoint_num
  /\ UNCHANGED << cfg, purev, ctl, bar, mgen, work_ok, kidx, checkpoint_num,
                  thread_handles, result, done, pc, lgen, sigv, guestv,
                  exitcode, netv >>

\* mutant: SIGUSR1 freezes the VM whether or not a destination is configured
SignalAlwaysMigrates(sig) ==
  /\ mpc = "select" /\ ~killed
  /\ IF sig \in { "INT", "TERM" }
       THEN mpc' = "fin_store" /\ freeze' = freeze
       ELSE mpc' = "h_set" /\ freeze' = "migration"
  /\ UNCHANGED << cfg, purev, ctl, bar, mgen, work_ok, kidx, tick, checkpoint_num, num_before,
                  thread_handles, result, done, pc, lgen, sigv, guestv,
                  exitcode, netv >>

\* the signal arm of the select: handle_signal
Signal(sig) ==
  /\ mpc = "select" /\ ~killed
  /\ IF sig \in { "INT", "TERM" }
       THEN mpc' = "fin_store" /\ freeze' = freeze
       ELSE IF cfg.migration_support
         THEN mpc' = "h_set" /\ freeze' = "migration"
         ELSE mpc' = mpc /\ freeze' = freeze
  /\ UNCHANGED << cfg, purev, ctl, bar, mgen, work_ok, kidx, tick, checkpoint_num, num_before,
                  thread_handles, result, done, pc, lgen, sigv, guestv,
                  exitcode, netv >>

\* the done arm of the select
Done ==
  /\ mpc = "select" /\ ~killed
  /\ done
  /\ mpc' = "fin_store"
  /\ UNCHANGED << cfg, purev, ctl, bar, mgen, freeze, work_ok, kidx, tick,
                  checkpoint_num, num_before, thread_handles, result, done, pc, lgen, sigv,
                  guestv, exitcode, netv >>

(* ------------------------------ handle_checkpoint / handle_migration *)
FreezeSet ==
  /\ mpc = "h_set" /\ ~killed
  /\ interrupt' = TRUE
  /\ mpc' = "h_kill"
  /\ kidx' = 0
  /\ UNCHANGED << cfg, purev, running, bar, mgen, freeze, work_ok, tick,
                  checkpoint_num, num_before, thread_handles, result, done, pc, lgen, sigv,
                  guestv, exitcode, netv >>

\* pthread_kill(thr, SIGUSR2): nothing happens to a thread that has ended
pthread_kill(i) ==
  [sigpending EXCEPT ![i] = IF pc[i] = "returned" THEN sigpending[i] ELSE TRUE]

KillLoop(from, to) ==
  /\ mpc = from /\ ~killed
  /\ IF kidx < cfg.num_cpus
       THEN /\ sigpending' = pthread_kill(kidx)
            /\ kidx' = kidx + 1
            /\ mpc' = mpc
       ELSE /\ sigpending' = sigpending
            /\ kidx' = 0
            /\ mpc' = to
  /\ UNCHANGED << cfg, purev, ctl, bar, mgen, freeze, work_ok, tick, checkpoint_num, num_before,
                  thread_handles, result, done, pc, lgen, blocked, handler,
                  killed, guestv, exitcode, netv >>

FreezeKill == KillLoop("h_kill", "h_bar1")

\* barrier.wait() of the main thread: arrival
MainArrive(from, wait, to) ==
  /\ mpc = from /\ ~killed
  /\ mgen' = generation_id
  /\ count' = BarrierCount
  /\ generation_id' = BarrierGen
  /\ mpc' = IF BarrierLast THEN to ELSE wait
  /\ UNCHANGED << cfg, purev, ctl, freeze, work_ok, kidx, tick, checkpoint_num, num_before,
                  thread_handles, result, done, pc, lgen, sigv, guestv,
                  exitcode, netv >>

\* barrier.wait() of the main thread: released by the last party
MainWake(wait, to) ==
  /\ mpc = wait /\ ~killed
  /\ mgen # generation_id
  /\ mpc' = to
  /\ mgen' = 0
  /\ UNCHANGED << cfg, purev, ctl, bar, freeze, work_ok, kidx, tick, checkpoint_num, num_before,
                  thread_handles, result, done, pc, lgen, sigv, guestv,
                  exitcode, netv >>

FreezeArrive1 == MainArrive("h_bar1", "h_wait1", "h_work")
FreezeWake1 == MainWake("h_wait1", "h_work")

\* create_checkpoint: checkpoint_num += 1 is its last statement, every
\* earlier step may fail
\* mutant: the counter is advanced before the steps that may fail
create_checkpoint_early(n, ok) == n + 1
create_checkpoint(n, ok) == IF ok THEN n + 1 ELSE n

\* the work of the freeze: create_checkpoint or run_migration, Ok or Err
FreezeWork ==
  /\ mpc = "h_work" /\ ~killed
  /\ \E ok \in BOOLEAN :
       /\ work_ok' = ok
       /\ checkpoint_num' = IF freeze = "checkpoint"
                              THEN create_checkpoint(checkpoint_num, ok)
                              ELSE checkpoint_num
  /\ mpc' = "h_clear"
  /\ UNCHANGED << cfg, purev, ctl, bar, mgen, freeze, kidx, tick, num_before,
                  thread_handles,
                  result, done, pc, lgen, sigv, guestv, exitcode, netv >>

FreezeClear ==
  /\ mpc = "h_clear" /\ ~killed
  /\ interrupt' = FALSE
  /\ mpc' = "h_bar2"
  /\ UNCHANGED << cfg, purev, running, bar, mgen, freeze, work_ok, kidx, tick,
                  checkpoint_num, num_before, thread_handles, result, done, pc, lgen, sigv,
                  guestv, exitcode, netv >>

\* mutant: a migration ends the main loop whether or not it succeeded
AfterFreezeEnds(f, ok) == IF f = "migration" THEN "fin_store" ELSE "select"

\* what the main loop does with the value handle_signal returns: the loop
\* goes on after a checkpoint and after a migration that failed
AfterFreeze(f, ok) == IF f = "migration" /\ ok THEN "fin_store" ELSE "select"

FreezeArrive2 ==
  /\ MainArrive("h_bar2", "h_wait2", "h_ret")
FreezeWake2 ==
  /\ MainWake("h_wait2", "h_ret")

FreezeReturn ==
  /\ mpc = "h_ret" /\ ~killed
  /\ mpc' = AfterFreeze(freeze, work_ok)
  /\ freeze' = "none"
  /\ UNCHANGED << cfg, purev, ctl, bar, mgen, work_ok, kidx, tick, checkpoint_num, num_before,
                  thread_handles, result, done, pc, lgen, sigv, guestv,
                  exitcode, netv >>

(* ------------------------------------------- the end of run(), and stop() *)
FinStore ==
  /\ mpc = "fin_store" /\ ~killed
  /\ running' = FALSE
  /\ mpc' = "fin_kill"
  /\ kidx' = 0
  /\ UNCHANGED << cfg, purev, interrupt, bar, mgen, freeze, work_ok, tick,
                  checkpoint_num, num_before, thread_handles, result, done, pc, lgen, sigv,
                  guestv, exitcode, netv >>

FinKill == KillLoop("fin_kill", "stop")

StopStore ==
  /\ mpc = "stop" /\ ~killed
  /\ running' = FALSE
  /\ result' = "Ok"
  /\ mpc' = "join"
  /\ UNCHANGED << cfg, purev, interrupt, bar, mgen, freeze, work_ok, kidx, tick,
                  checkpoint_num, num_before, thread_handles, done, pc, lgen, sigv, guestv,
                  exitcode, netv >>

\* mutant: the thread joined last decides the result
JoinResultLast(res, ec) ==
  IF ec.tag = "Cause" /\ ec.err # NoErr THEN "Err" ELSE "Ok"

\* what joining a thread that returned ec makes of stop()'s result
JoinResult(res, ec) == IF ec.tag = "Cause" /\ ec.err # NoErr THEN "Err" ELSE res

\* stop(): pop a handle and join it, or return when none is left
StopJoin ==
  /\ mpc = "join" /\ ~killed
  /\ IF thread_handles = << >>
       THEN /\ mpc' = "done"
            /\ UNCHANGED << thread_handles, result >>
       ELSE LET h == thread_handles[Len(thread_handles)] IN
            /\ pc[h] = "returned"
            /\ thread_handles' = SubSeq(thread_handles, 1, Len(thread_handles) - 1)
            /\ result' = JoinResult(result, exitcode[h])
            /\ mpc' = mpc
  /\ UNCHANGED << cfg, purev, ctl, bar, mgen, freeze, work_ok, kidx, tick,
                  checkpoint_num, num_before, done, pc, lgen, sigv, guestv, exitcode, netv >>

(* -------------------------------------------------- VirtualCPU::run_vcpu *)
mainAll == << mainv, done >>

\* mutant: the id is published without the wait on mboot[0x20]
VcpuSpinNoWait(i) ==
  /\ pc[i] = "spin" /\ ~killed
  /\ mboot30' = i
  /\ pc' = [pc EXCEPT ![i] = "sigaction"]
  /\ UNCHANGED << cfg, purev, ctl, bar, mainAll, lgen, sigv, kvm_run, args, hostret,
                  mboot20, exitcode, netv >>

\* startup wait on mboot[0x20], then the id is published at mboot[0x30]
VcpuSpin(i) ==
  /\ pc[i] = "spin" /\ ~killed
  /\ ~(mboot20 < i)
  /\ mboot30' = i
  /\ pc' = [pc EXCEPT ![i] = "sigaction"]
  /\ UNCHANGED << cfg, purev, ctl, bar, mainAll, lgen, sigv, kvm_run, args, hostret,
                  mboot20, exitcode, netv >>

\* set_signal_mask_fd (empty mask inside the run ioctl) and sigaction
VcpuSigaction(i) ==
  /\ pc[i] = "sigaction" /\ ~killed
  /\ handler' = TRUE
  /\ pc' = [pc EXCEPT ![i] = "block"]
  /\ UNCHANGED << cfg, purev, ctl, bar, mainAll, lgen, sigpending, blocked, killed,
                  guestv, exitcode, netv >>

\* newset.thread_swap_mask(SIG_BLOCK), and newset.thread_block() after an
\* interrupt
VcpuBlock(i) ==
  /\ pc[i] = "block" /\ ~killed
  /\ blocked' = [blocked EXCEPT ![i] = TRUE]
  /\ pc' = [pc EXCEPT ![i] = "loop"]
  /\ UNCHANGED << cfg, purev, ctl, bar, mainAll, lgen, sigpending, handler, killed,
                  guestv, exitcode, netv >>

\* a pending SIGUSR2 reaches a thread that does not block it: the empty
\* handler runs, or the default action ends the process
Deliver(i) ==
  /\ ~killed
  /\ pc[i] \notin { "unspawned", "returned" }
  /\ sigpending[i] /\ ~blocked[i]
  /\ sigpending' = [sigpending EXCEPT ![i] = FALSE]
  /\ killed' = ~handler
  /\ UNCHANGED << cfg, purev, ctl, bar, mainAll, pc, lgen, blocked, handler, guestv,
                  exitcode, netv >>

\* the condition of the while loop
VcpuLoop(i) ==
  /\ pc[i] = "loop" /\ ~killed
  /\ IF running
       THEN /\ pc' = [pc EXCEPT ![i] = "ioctl"]
            /\ exitcode' = exitcode
       ELSE /\ pc' = [pc EXCEPT ![i] = "ret"]
            /\ exitcode' = [exitcode EXCEPT ![i] = Innocent]
  /\ kvm_run' = [kvm_run EXCEPT ![i] = NoRun]
  /\ args' = [args EXCEPT ![i] = NoArgs]
  /\ hostret' = [hostret EXCEPT ![i] = 0]
  /\ UNCHANGED << cfg, purev, ctl, bar, mainAll, lgen, sigv, mboot20, mboot30, netv >>

\* the run ioctl returns EINTR: SIGUSR2 is pending (it stays pending, the
\* thread's own mask blocks it)
RunEintr(i) ==
  /\ pc[i] = "ioctl" /\ ~killed
  /\ sigpending[i]
  /\ pc' = [pc EXCEPT ![i] = "interrupt"]
  /\ UNCHANGED << cfg, purev, ctl, bar, mainAll, lgen, sigv, guestv, exitcode, netv >>

\* the argument blocks the guest passes with a request
ArgBlocks(sc) ==
  CASE sc \in { "Write", "Read", "Close", "LSeek" } ->
         { [NoArgs EXCEPT !.fd = f, !.len = 1] : f \in cfg.fds }
    [] sc = "Open" -> { [NoArgs EXCEPT !.name = n] : n \in cfg.names }
    [] sc = "Exit" -> { [NoArgs EXCEPT !.arg = c] : c \in cfg.codes }
    [] sc \in { "NetWrite", "NetRead" } -> { [NoArgs EXCEPT !.len = 1] }
    [] OTHER -> { NoArgs }

\* the run ioctl returns Ok: a port-I/O exit of the guest
RunIo(i, port) ==
  /\ pc[i] = "ioctl" /\ ~killed
  /\ kvm_run' = [kvm_run EXCEPT ![i] = [exit_reason |-> "IO", port |-> port]]
  /\ \E a \in ArgBlocks(PortSyscall(port)) : args' = [args EXCEPT ![i] = a]
  /\ pc' = [pc EXCEPT ![i] = "syscall"]
  /\ UNCHANGED << cfg, purev, ctl, bar, mainAll, lgen, sigv, hostret, mboot20, mboot30,
                  exitcode, netv >>

\* the run ioctl returns Ok with another exit reason
RunOther(i, reason) ==
  /\ pc[i] = "ioctl" /\ ~killed
  /\ kvm_run' = [kvm_run EXCEPT ![i] = [exit_reason |-> reason, port |-> 0]]
  /\ pc' = [pc EXCEPT ![i] = "syscall"]
  /\ UNCHANGED << cfg, purev, ctl, bar, mainAll, lgen, sigv, args, hostret, mboot20,
                  mboot30, exitcode, netv >>

\* single_run's answer to an errno of the run ioctl other than EINTR
RunErrno(errno) == IF errno = "EFAULT" THEN TranslationFault ELSE IOCTLRun

\* the run ioctl fails with an errno other than EINTR
RunFail(i, errno) ==
  /\ pc[i] = "ioctl" /\ ~killed
  /\ exitcode' = [exitcode EXCEPT ![i] = CauseErr(RunErrno(errno))]
  /\ pc' = [pc EXCEPT ![i] = "store"]
  /\ UNCHANGED << cfg, purev, ctl, bar, mainAll, lgen, sigv, guestv, netv >>

\* what the host call of request sc may return (0 stands for no call)
HostRets(sc, a) ==
  IF ~HostCall(sc, a) THEN { 0 }
  ELSE IF sc \in { "NetWrite", "NetRead" } /\ ~cfg.netif THEN { -1 }
  ELSE IF sc = "NetRead" /\ tap = 0 THEN { -1 }
  ELSE IF sc = "NetRead" THEN { -1 } \cup (1 .. MaxHostRet)
  ELSE -1 .. MaxHostRet

\* where run_vcpu goes with the value single_run returned
AfterSyscall(r) ==
  CASE r.ret = "Continue" -> IF r.notify THEN "notify" ELSE "loop"
    [] OTHER -> "store"

\* the ExitCode run_vcpu returns for the value single_run returned
SyscallExit(r) ==
  CASE r.ret = "Exit" -> CauseOk(r.code)
    [] r.ret = "Err" -> CauseErr(r.err)
    [] OTHER -> NoExit

\* single_run after the ioctl: from_mem, then Syscall::run
Syscall(i) ==
  /\ pc[i] = "syscall" /\ ~killed
  /\ LET d == from_mem(kvm_run[i]) IN
       IF ~d.ok
         THEN /\ exitcode' = [exitcode EXCEPT ![i] = CauseErr(d.err)]
              /\ pc' = [pc EXCEPT ![i] = "store"]
              /\ UNCHANGED << args, hostret, tap >>
         ELSE \E h \in HostRets(d.sc, args[i]) :
                LET r == SyscallRun(d.sc, args[i], h, cfg.netif,
                                    kvm_run[i].exit_reason) IN
                  /\ args' = [args EXCEPT ![i] = r.args]
                  /\ hostret' = [hostret EXCEPT ![i] = h]
                  /\ exitcode' = [exitcode EXCEPT ![i] = SyscallExit(r)]
                  /\ pc' = [pc EXCEPT ![i] = AfterSyscall(r)]
                  /\ tap' = IF d.sc = "NetRead" /\ h >= 0 THEN tap - 1 ELSE tap
  /\ UNCHANGED << cfg, purev, ctl, bar, mainAll, lgen, sigv, kvm_run, mboot20,
                  mboot30, pollpc, irq >>

\* NetworkInterface::notify: the rendezvous send completes when the poll
\* thread receives, or fails at once when the poll thread has ended
Notify(i) ==
  /\ pc[i] = "notify" /\ ~killed
  /\ pollpc \in { "recv", "stopped" }
  /\ pollpc' = IF pollpc = "recv" THEN "poll" ELSE pollpc
  /\ pc' = [pc EXCEPT ![i] = "loop"]
  /\ UNCHANGED << cfg, purev, ctl, bar, mainAll, lgen, sigv, guestv, exitcode, tap,
                  irq >>

\* a run_vcpu that returns Cause(..) with control.running left as it was
VcpuStoreKeepsRunning(i) ==
  /\ pc[i] = "store" /\ ~killed
  /\ running' = running
  /\ pc' = [pc EXCEPT ![i] = "ret"]
  /\ UNCHANGED << cfg, purev, interrupt, bar, mainAll, lgen, sigv, guestv, exitcode,
                  netv >>

\* running.store(false) before run_vcpu returns Cause(..)
VcpuStore(i) ==
  /\ pc[i] = "store" /\ ~killed
  /\ running' = FALSE
  /\ pc' = [pc EXCEPT ![i] = "ret"]
  /\ UNCHANGED << cfg, purev, interrupt, bar, mainAll, lgen, sigv, guestv, exitcode,
                  netv >>

\* run_vcpu has returned: sdone.send(()), and the thread ends
VcpuReturn(i) ==
  /\ pc[i] = "ret" /\ ~killed
  /\ done' = (done \/ i = 0)
  /\ pc' = [pc EXCEPT ![i] = "returned"]
  /\ UNCHANGED << cfg, purev, ctl, bar, mainv, lgen, sigv, guestv, exitcode, netv >>

\* Ok(Interrupt): the load of control.interrupt
VcpuInterrupt(i) ==
  /\ pc[i] = "interrupt" /\ ~killed
  /\ pc' = [pc EXCEPT ![i] = IF interrupt THEN "bar1" ELSE "unmask"]
  /\ UNCHANGED << cfg, purev, ctl, bar, mainAll, lgen, sigv, guestv, exitcode, netv >>

\* barrier.wait() of a vCPU thread: arrival
VcpuArrive(i, from, wait, to) ==
  /\ pc[i] = from /\ ~killed
  /\ lgen' = [lgen EXCEPT ![i] = IF BarrierLast THEN 0 ELSE generation_id]
  /\ count' = BarrierCount
  /\ generation_id' = BarrierGen
  /\ pc' = [pc EXCEPT ![i] = IF BarrierLast THEN to ELSE wait]
  /\ UNCHANGED << cfg, purev, ctl, mainAll, sigv, guestv, exitcode, netv >>

\* barrier.wait() of a vCPU thread: released by the last party
VcpuWake(i, wait, to) ==
  /\ pc[i] = wait /\ ~killed
  /\ lgen[i] # generation_id
  /\ lgen' = [lgen EXCEPT ![i] = 0]
  /\ pc' = [pc EXCEPT ![i] = to]
  /\ UNCHANGED << cfg, purev, ctl, bar, mainAll, sigv, guestv, exitcode, netv >>

VcpuArrive1(i) == VcpuArrive(i, "bar1", "wait1", "bar2")
VcpuWake1(i) == VcpuWake(i, "wait1", "bar2")
VcpuArrive2(i) == VcpuArrive(i, "bar2", "wait2", "unmask")
VcpuWake2(i) == VcpuWake(i, "wait2", "unmask")

\* oldset.thread_set_mask(): SIGUSR2 is unblocked and the pending one is
\* taken by the empty handler
VcpuUnmask(i) ==
  /\ pc[i] = "unmask" /\ ~killed
  /\ blocked' = [blocked EXCEPT ![i] = FALSE]
  /\ sigpending' = [sigpending EXCEPT ![i] = FALSE]
  /\ pc' = [pc EXCEPT ![i] = "block"]
  /\ UNCHANGED << cfg, purev, ctl, bar, mainAll, lgen, handler, killed, guestv,
                  exitcode, netv >>

\* the guest brings the next CPU online: mboot[0x20] is its counter
GuestOnline(i) ==
  /\ pc[i] = "ioctl" /\ ~killed
  /\ mboot20 < cfg.num_cpus
  /\ mboot20' = mboot20 + 1
  /\ UNCHANGED << cfg, purev, ctl, bar, mainAll, pc, lgen, sigv, kvm_run, args, hostret,
                  mboot30, exitcode, netv >>

(* ------------------------------------- NetworkInterface::wait_for_packet *)
\* a packet arrives on the tap
TapPacket ==
  /\ ~killed
  /\ cfg.netif /\ pollpc # "off"
  /\ tap < MaxPackets
  /\ tap' = tap + 1
  /\ UNCHANGED << cfg, purev, ctl, bar, mainAll, pc, lgen, sigv, guestv, exitcode,
                  pollpc, irq >>

\* poll() returns Ok: the tap is readable
PollOk ==
  /\ pollpc = "poll" /\ ~killed
  /\ tap > 0
  /\ irq < MaxIrq
  /\ pollpc' = "write"
  /\ UNCHANGED << cfg, purev, ctl, bar, mainAll, pc, lgen, sigv, guestv, exitcode,
                  tap, irq >>

\* poll() fails with an error other than EINTR: the loop ends
PollErr ==
  /\ pollpc = "poll" /\ ~killed
  /\ pollpc' = "stopped"
  /\ UNCHANGED << cfg, purev, ctl, bar, mainAll, pc, lgen, sigv, guestv, exitcode,
                  tap, irq >>

\* every clone of the Arc that holds the NetworkInterface is gone: run() has
\* returned and every vCPU thread has ended, so the sending end of the
\* channel is dropped
SenderDropped == mpc \in { "done", "failed" }

\* wait_receiver.recv() returns Err when the sender is dropped; the result
\* is ignored and the loop goes on
PollHangup ==
  /\ pollpc = "recv" /\ ~killed
  /\ SenderDropped
  /\ pollpc' = "poll"
  /\ UNCHANGED << cfg, purev, ctl, bar, mainAll, pc, lgen, sigv, guestv, exitcode,
                  tap, irq >>

\* mutant: the poll thread does not wait for the acknowledgement
PollWriteNoWait ==
  /\ pollpc = "write" /\ ~killed
  /\ irq' = irq + 1
  /\ pollpc' = "poll"
  /\ UNCHANGED << cfg, purev, ctl, bar, mainAll, pc, lgen, sigv, guestv, exitcode,
                  tap >>

\* the write to the eventfd, then wait_receiver.recv()
PollWrite ==
  /\ pollpc = "write" /\ ~killed
  /\ irq' = irq + 1
  /\ pollpc' = "recv"
  /\ UNCHANGED << cfg, purev, ctl, bar, mainAll, pc, lgen, sigv, guestv, exitcode,
                  tap >>

(* ------------------------------------------------------------------ Next *)
VcpuStep(i) ==
  \/ VcpuSpin(i) \/ VcpuSigaction(i) \/ VcpuBlock(i) \/ VcpuLoop(i)
  \/ RunEintr(i) \/ Syscall(i) \/ VcpuStore(i) \/ VcpuReturn(i)
  \/ VcpuInterrupt(i)
  \/ VcpuArrive1(i) \/ VcpuWake1(i) \/ VcpuArrive2(i) \/ VcpuWake2(i)
  \/ VcpuUnmask(i)

MainStep ==
  \/ RunStart \/ Spawn \/ Done
  \/ FreezeSet \/ FreezeKill \/ FreezeArrive1 \/ FreezeWake1 \/ FreezeWork
  \/ FreezeClear \/ FreezeArrive2 \/ FreezeWake2 \/ FreezeReturn
  \/ FinStore \/ FinKill \/ StopStore \/ StopJoin

\* the threads that exist when a NetworkInterface is configured
NetStep == PollOk \/ PollWrite \/ PollHangup \/ \E i \in CPUs : Notify(i)

\* what the guest, the host and the outside world do
Environment ==
  \/ Tick
  \/ \E sig \in { "INT", "TERM", "USR1" } : Signal(sig)
  \/ \E i \in CPUs : \E port \in cfg.ports : RunIo(i, port)
  \/ \E i \in CPUs : \E reason \in cfg.reasons : RunOther(i, reason)
  \/ \E i \in CPUs : \E errno \in cfg.errnos : RunFail(i, errno)
  \/ \E i \in CPUs : GuestOnline(i)

NetEnvironment == TapPacket \/ PollErr

\* a VM without a NetworkInterface
NextVM ==
  \/ MainStep
  \/ \E i \in CPUs : VcpuStep(i)
  \/ \E i \in CPUs : Deliver(i)
  \/ Environment

Next == NextVM \/ NetStep \/ NetEnvironment

(* --------------------------------------------------------- configurations *)

Config(n, cp, mig, net, ports, reasons, errnos) ==
  [num_cpus |-> n, checkpoint |-> cp, migration_support |-> mig, netif |-> net,
   ports |-> ports, reasons |-> reasons, errnos |-> errnos,
   fds |-> { 3 }, names |-> { "/tmp/x" }, codes |-> { 0 }]

\* no call is under study
Idle == [fn |-> "none"]
\* the virtual machine as constructed, not started
Stopped == InitState(Config(1, 0, FALSE, FALSE, { }, { }, { }))

\* NumCpus vCPUs, periodic checkpoints, a migration destination, no tap; the
\* guest writes to the UART, halts or exits, the run ioctl may fail
Init ==
  /\ InitState(Config(NumCpus, MaxInterval, TRUE, FALSE,
                      { PORT_UART, PORT_EXIT }, { "HLT" }, { "EFAULT" }))
  /\ inp = Idle /\ out = Idle

Spec == Init /\ [][NextVM]_vars

\* every thread of the process is scheduled again and again; the guest, the
\* signals, the ticks and the tap are under no obligation
Fairness ==
  /\ WF_vars(MainStep)
  /\ \A i \in 0 .. (NumCpus - 1) : WF_vars(VcpuStep(i)) /\ WF_vars(Deliver(i))

FairSpec == Spec /\ Fairness

\* one vCPU, with and without a tap, a guest that uses every port, every exit
\* reason and a port that is no hypercall port
InitIO ==
  /\ \E net \in BOOLEAN :
       InitState(Config(1, 0, TRUE, net, HypercallPorts \cup UnknownPorts,
                        ExitReasons \ { "IO" }, { "EFAULT", "EIO" }))
  /\ inp = Idle /\ out = Idle

SpecIO == InitIO /\ [][Next]_vars

\* one vCPU, every checkpoint interval from none to MaxInterval + 1, with and
\* without a migration destination
InitLoop ==
  /\ \E cp \in 0 .. (MaxInterval + 1) : \E mig \in BOOLEAN :
       InitState(Config(1, cp, mig, FALSE, { PORT_UART, PORT_EXIT }, { "HLT" },
                        { "EFAULT" }))
  /\ inp = Idle /\ out = Idle

SpecLoop == InitLoop /\ [][NextVM]_vars

(* ------------------------------------------ Syscall::run, call by call *)
FileRequests == { "Open", "Close", "Write", "Read", "LSeek" }
Names == { "/tmp/x", "/dev/kvm", "/tmp/kvmlink", "/tmp/missing" }
Fds == -1 .. MaxFd

\* the argument blocks a guest may pass with a file request
CallArgs(sc) ==
  IF sc = "Open" THEN { [NoArgs EXCEPT !.name = n] : n \in Names }
  ELSE { [NoArgs EXCEPT !.fd = f, !.len = 1] : f \in Fds }

\* a file request, its argument block and what the host would answer
InitCall ==
  /\ Stopped
  /\ \E sc \in FileRequests : \E a \in CallArgs(sc) : \E h \in -1 .. MaxHostRet :
       inp = [fn |-> sc, args |-> a, host |-> h]
  /\ out = Idle

\* Syscall::run on the request
Call ==
  /\ inp.fn \in FileRequests /\ out = Idle
  /\ out' = [fn |-> inp.fn,
             ret |-> SyscallRun(inp.fn, inp.args, inp.host, FALSE, "IO"),
             host |-> HostOp(inp.fn, inp.args)]
  /\ UNCHANGED << vmv, inp >>

SpecCall == InitCall /\ [][Call]_vars

(* ------------------------------------ create_checkpoint, file by file *)
\* the files of the directory checkpoint/
ConfigFile == [kind |-> "config", gen |-> 0, cpu |-> 0]
\* mutant: every generation writes the mem file of generation 0
get_mem_file_path_first(n) == [kind |-> "mem", gen |-> 0, cpu |-> 0]
\* checkpoint/chk{n}_mem.dat
get_mem_file_path(n) == [kind |-> "mem", gen |-> n, cpu |-> 0]
\* checkpoint/chk{n}_core{cpuid}.dat
CoreFile(n, cpuid) == [kind |-> "core", gen |-> n, cpu |-> cpuid]

\* the steps of create_checkpoint that can fail, in the order of the code:
\* save_cpu_state, File::create of the mem file, get_clock / write_all /
\* scan_page_tables, File::create of chk_config.txt, and the core file of
\* each vCPU; "none": every step succeeds
FailPoints(n) ==
  { [at |-> x, cpu |-> 0] : x \in { "none", "cpu_state", "mem", "scan", "config" } }
    \cup { [at |-> "core", cpu |-> i] : i \in 0 .. (n - 1) }

\* the files create_checkpoint has created when it fails at f, or returns
FilesWritten(num, n, f) ==
  (IF f.at \in { "cpu_state", "mem" } THEN { } ELSE { get_mem_file_path(num) })
    \cup (IF f.at \in { "none", "core" } THEN { ConfigFile } ELSE { })
    \cup { CoreFile(num, i) : i \in { j \in 0 .. (n - 1) : f.at = "none" \/ (f.at = "core" /\ j < f.cpu) } }

\* a cold boot: no checkpoint directory, checkpoint_num = 0
InitChk ==
  /\ \E n \in 1 .. NumCpus : \E full \in BOOLEAN :
       /\ InitState(Config(n, 1, FALSE, FALSE, { }, { }, { }))
       /\ inp = [fn |-> "create_checkpoint", num_cpus |-> n, full |-> full]
  /\ out = [fn |-> "create_checkpoint", files |-> { }, config |-> -1,
            calls |-> 0, failed |-> 0]

\* one call of handle_checkpoint: create_checkpoint runs to the step f
CheckpointCall(f) ==
  /\ inp.fn = "create_checkpoint"
  /\ out.calls < MaxCalls
  /\ out' = [out EXCEPT
               !.files = @ \cup FilesWritten(checkpoint_num, inp.num_cpus, f),
               !.config = IF f.at \in { "none", "core" } THEN checkpoint_num ELSE @,
               !.calls = @ + 1,
               !.failed = IF f.at = "none" THEN @ ELSE @ + 1]
  /\ checkpoint_num' = create_checkpoint(checkpoint_num, f.at = "none")
  /\ UNCHANGED << cfg, ctl, bar, mgen, mpc, freeze, work_ok, kidx, tick,
                  num_before, thread_handles, result, done, pc, lgen, sigv,
                  guestv, exitcode, netv, inp >>

NextChk == \E f \in FailPoints(inp.num_cpus) : CheckpointCall(f)

SpecChk == InitChk /\ [][NextChk]_vars

(* ------------------------------------------------- CheckpointConfig *)
\* isize has the width of usize
IsizeMax == (UsizeMod \div 2) - 1
IsizeMin == -(UsizeMod \div 2)

\* the digits of n >= 0 to the base r, most significant first
RECURSIVE Digits(_, _)
Digits(n, r) == IF n < r THEN << n >> ELSE Append(Digits(n \div r, r), n % r)

\* the number a digit string stands for
RECURSIVE Value(_, _)
Value(d, r) ==
  IF d = << >> THEN 0 ELSE Value(SubSeq(d, 1, Len(d) - 1), r) * r + d[Len(d)]

\* {} of an unsigned integer
FormatDec(n) == Digits(n, 10)
\* {:#x} of a u64, after the 0x
FormatHex(n) == Digits(n, 16)
\* {:#x} of an isize, after the 0x: a negative value is printed as its
\* two's complement
FormatHexIsize(v) == Digits(IF v < 0 THEN v + UsizeMod ELSE v, 16)

\* str::parse::<u32> and u64::from_str_radix(.., 16) of a digit string
ParseUnsigned(d, r) ==
  IF d = << >> THEN [ok |-> FALSE, v |-> 0] ELSE [ok |-> TRUE, v |-> Value(d, r)]
\* mutant: the memory size is read to the base 10
ParseHexIsizeDecimal(d) ==
  IF d = << >> \/ Value(d, 10) > IsizeMax THEN [ok |-> FALSE, v |-> 0]
  ELSE [ok |-> TRUE, v |-> Value(d, 10)]
\* isize::from_str_radix(.., 16): a value above isize::MAX is an overflow
ParseHexIsize(d) ==
  IF d = << >> \/ Value(d, 16) > IsizeMax THEN [ok |-> FALSE, v |-> 0]
  ELSE [ok |-> TRUE, v |-> Value(d, 16)]

\* CheckpointConfig::to_string: five lines, each a fixed start and a number
to_string(c) ==
  << [start |-> "number of cores: ", rest |-> FormatDec(c.num_cpus)],
     [start |-> "memory size: 0x", rest |-> FormatHexIsize(c.mem_size)],
     [start |-> "checkpoint number: ", rest |-> FormatDec(c.checkpoint_number)],
     [start |-> "entry point: 0x", rest |-> FormatHex(c.elf_entry)],
     [start |-> "full checkpoint: ", rest |-> FormatDec(IF c.full THEN 1 ELSE 0)] >>

\* a check_line that looks at the first line only
check_line_first_line(lines, start) ==
  IF lines # << >> /\ lines[1].start = start
    THEN [ok |-> TRUE, rest |-> lines[1].rest]
    ELSE [ok |-> FALSE, rest |-> << >>]

\* CheckpointConfig::check_line: the rest of the first line that starts
\* with start
check_line(lines, start) ==
  LET hits == { i \in DOMAIN lines : lines[i].start = start } IN
    IF hits = { } THEN [ok |-> FALSE, rest |-> << >>]
    ELSE [ok |-> TRUE,
          rest |-> lines[CHOOSE i \in hits : \A j \in hits : i <= j].rest]

\* a field of CheckpointConfig::from: check_line, then the parser, each
\* with `?`
Field(lines, start, kind) ==
  LET l == check_line(lines, start) IN
    IF ~l.ok THEN [ok |-> FALSE, v |-> 0]
    ELSE CASE kind = "dec" -> ParseUnsigned(l.rest, 10)
           [] kind = "hex" -> ParseUnsigned(l.rest, 16)
           [] OTHER -> ParseHexIsize(l.rest)

InvalidCheckpoint == [ok |-> FALSE]

\* CheckpointConfig::from
CheckpointConfig_from(data) ==
  LET cores == Field(data, "number of cores: ", "dec")
      size == Field(data, "memory size: 0x", "isize")
      num == Field(data, "checkpoint number: ", "dec")
      elf_entry == Field(data, "entry point: 0x", "hex")
      full == Field(data, "full checkpoint: ", "dec")
  IN IF cores.ok /\ size.ok /\ num.ok /\ elf_entry.ok /\ full.ok
       THEN [ok |-> TRUE,
             c |-> [num_cpus |-> cores.v, mem_size |-> size.v,
                    checkpoint_number |-> num.v, elf_entry |-> elf_entry.v,
                    full |-> full.v # 0]]
       ELSE InvalidCheckpoint

\* the configs under study
Configs ==
  [num_cpus : 1 .. NumCpus,
   mem_size : { IsizeMin, -1, 0, 1, 255, 256, IsizeMax },
   checkpoint_number : 0 .. MaxCalls,
   elf_entry : { 0, MaxEntry },
   full : BOOLEAN]

InitCfg ==
  /\ Stopped
  /\ \E c \in Configs : inp = [fn |-> "to_string", c |-> c]
  /\ out = Idle

\* c.to_string()
ConfigToString ==
  /\ inp.fn = "to_string" /\ out = Idle
  /\ out' = [fn |-> "to_string", text |-> to_string(inp.c)]
  /\ UNCHANGED << vmv, inp >>

\* CheckpointConfig::from(&text)
ConfigFromString ==
  /\ out.fn = "to_string"
  /\ out' = [fn |-> "from", res |-> CheckpointConfig_from(out.text)]
  /\ UNCHANGED << vmv, inp >>

NextCfg == ConfigToString \/ ConfigFromString

SpecCfg == InitCfg /\ [][NextCfg]_vars

\* the lines of c.to_string() in the order perm, without the line drop
\* (none is left out when drop = 0)
Reordered(c, perm, drop) ==
  LET l == to_string(c)
      RECURSIVE Take(_)
      Take(i) == IF i > Len(l) THEN << >>
                 ELSE (IF perm[i] = drop THEN << >> ELSE << l[perm[i]] >>) \o Take(i + 1)
  IN  Take(1)

\* CheckpointConfig::from on the five lines of a config in every order, and
\* on every four of them
InitOrd ==
  /\ Stopped
  /\ \E c \in { x \in Configs : x.mem_size \in { 0, 255 }
                                  /\ x.checkpoint_number \in { 0, MaxCalls } } :
     \E perm \in { q \in [1 .. 5 -> 1 .. 5] : \A a, b \in 1 .. 5 : q[a] = q[b] => a = b } :
     \E drop \in 0 .. 5 :
       /\ inp = [fn |-> "from", c |-> c, perm |-> perm, drop |-> drop]
       /\ out = [fn |-> "to_string", text |-> Reordered(c, perm, drop)]

SpecOrd == InitOrd /\ [][ConfigFromString]_vars

(* ------------------------------------ run_migration / load_migration *)
\* the guest RAM of the vCPUs' VM holds at most MaxMem bytes
MaxMem == 2

\* one unit of the TCP stream: a byte of RAM, or the bytes of one struct
Items(k, s) == [i \in 1 .. Len(s) |-> [kind |-> k, val |-> s[i]]]

\* the metadata of a VM
get_checkpoint_config(vm) ==
  [num_cpus |-> vm.num_cpus, mem_size |-> Len(vm.mem),
   checkpoint_number |-> vm.checkpoint_num, elf_entry |-> vm.elf_entry,
   full |-> vm.full]

\* mutant: the vCPU states are sent before the RAM
run_migration_cpus_first(vm) ==
  Items("config", << [get_checkpoint_config(vm) EXCEPT !.checkpoint_number = 0] >>)
    \o Items("vcpu", vm.vcpus) \o Items("ram", vm.mem)
    \o Items("clock", IF vm.cap_adjust_clock_stable THEN << vm.clock >> ELSE << >>)

\* what run_migration sends when no step fails: meta with checkpoint_number
\* 0, the RAM, save_cpu_state() of each vCPU, and the clock if this host has
\* the stable clock
run_migration(vm) ==
  Items("config", << [get_checkpoint_config(vm) EXCEPT !.checkpoint_number = 0] >>)
    \o Items("ram", vm.mem) \o Items("vcpu", vm.vcpus)
    \o Items("clock", IF vm.cap_adjust_clock_stable THEN << vm.clock >> ELSE << >>)

\* read_exact of n units at pos; the sender has closed the stream
recv_data(s, pos, n) ==
  IF pos + n <= Len(s) + 1
    THEN [ok |-> TRUE, data |-> SubSeq(s, pos, pos + n - 1), pos |-> pos + n]
    ELSE [ok |-> FALSE, data |-> << >>, pos |-> Len(s) + 1]

\* MigrationServer::wait_for_incoming: accept, then read the metadata
wait_for_incoming(s) ==
  LET r == recv_data(s, 1, 1)
  IN  [ok |-> r.ok, pos |-> r.pos,
       config |-> IF r.ok THEN r.data[1].val ELSE Idle]

\* the receiving VM is created from the received metadata
create_vm(config, cap) ==
  [mem_len |-> config.mem_size, num_cpus |-> config.num_cpus,
   cap_adjust_clock_stable |-> cap]

\* load_migration: the RAM of this VM, one vcpu_state per vCPU of the
\* metadata, and the clock if this host has the stable clock
load_migration(vm, s, mig) ==
  LET m == recv_data(s, mig.pos, vm.mem_len)
      c == recv_data(s, m.pos, mig.config.num_cpus)
      k == recv_data(s, c.pos, 1)
      clk == vm.cap_adjust_clock_stable
  IN  [ok |-> m.ok /\ c.ok /\ (clk => k.ok),
       mem |-> m.data,
       cpu_states |-> IF m.ok THEN c.data ELSE << >>,
       clock |-> IF m.ok /\ c.ok /\ clk THEN k.data ELSE << >>,
       reads_clock |-> m.ok /\ c.ok /\ clk,
       pos |-> IF ~m.ok THEN m.pos ELSE IF ~c.ok \/ ~clk THEN c.pos ELSE k.pos]

\* a frozen sender of n vCPUs and l bytes of RAM, and the capability of the
\* receiving host
InitMig ==
  /\ Stopped
  /\ \E n \in 1 .. NumCpus : \E l \in 1 .. MaxMem : \E cap \in BOOLEAN :
       \E vm \in [num_cpus : { n }, mem : [1 .. l -> 0 .. 1],
                   vcpus : [1 .. n -> 0 .. 1], checkpoint_num : 0 .. 1,
                   elf_entry : { MaxEntry }, full : { FALSE },
                   cap_adjust_clock_stable : BOOLEAN, clock : { 7 }] :
         inp = [fn |-> "run_migration", vm |-> vm, cap_adjust_clock_stable |-> cap]
  /\ out = Idle

\* handle_migration on the sender: run_migration gets n units out before a
\* step of it fails, or all of them
RunMigration(n) ==
  /\ inp.fn = "run_migration" /\ out = Idle
  /\ n \in 0 .. Len(run_migration(inp.vm))
  /\ out' = [fn |-> "run_migration",
             ok |-> n = Len(run_migration(inp.vm)),
             stream |-> SubSeq(run_migration(inp.vm), 1, n)]
  /\ UNCHANGED << vmv, inp >>

\* the receiver: MigrationServer::wait_for_incoming
WaitForIncoming ==
  /\ out.fn = "run_migration"
  /\ out' = [fn |-> "wait_for_incoming", sent |-> out.ok, stream |-> out.stream,
             mig |-> wait_for_incoming(out.stream)]
  /\ UNCHANGED << vmv, inp >>

\* the receiver: load_migration on the VM created for the metadata
LoadMigration ==
  /\ out.fn = "wait_for_incoming" /\ out.mig.ok
  /\ out' = [fn |-> "load_migration", sent |-> out.sent, stream |-> out.stream,
             mig |-> out.mig,
             res |-> load_migration(create_vm(out.mig.config, inp.cap_adjust_clock_stable),
                                    out.stream, out.mig)]
  /\ UNCHANGED << vmv, inp >>

SpecMig ==
  InitMig /\ [][\/ \E n \in 0 .. (MaxMem + NumCpus + 2) : RunMigration(n)
                \/ WaitForIncoming
                \/ LoadMigration]_vars

(* ------------------------------- save_cpu_state / restore_cpu_state *)
\* the list of required MSRs, entries[0] to entries[13]
MsrList ==
  << "IA32_APICBASE", "IA32_SYSENTER_CS", "IA32_SYSENTER_ESP",
     "IA32_SYSENTER_EIP", "IA32_CR_PAT", "IA32_MISC_ENABLE", "IA32_TSC",
     "CSTAR", "STAR", "EFER", "LSTAR", "GS_BASE", "FS_BASE", "KERNEL_GS_BASE" >>

\* the snapshot of the vCPU whose state in the kernel is k: the MSRs of the
\* list in its order, then what the get ioctls return
save_cpu_state(k) ==
  [msr_data |-> [i \in DOMAIN MsrList |->
                   [index |-> MsrList[i], data |-> k.msrs[MsrList[i]]]],
   regs |-> k.regs, sregs |-> k.sregs, fpu |-> k.fpu, lapic |-> k.lapic,
   xsave |-> k.xsave, xcrs |-> k.xcrs, events |-> k.events,
   mp_state |-> k.mp_state]

\* mutant: restore without set_regs
restore_cpu_state_no_regs(k, s) ==
  [cpu |-> [k EXCEPT !.sregs = s.sregs, !.xcrs = s.xcrs, !.lapic = s.lapic,
                     !.fpu = s.fpu, !.xsave = s.xsave, !.events = s.events],
   cpu_state |-> s]

\* restore_cpu_state(&mut s) on the vCPU whose state in the kernel is k: the
\* state of the vCPU after the set ioctls, and the snapshot as it is left
restore_cpu_state(k, s) ==
  LET t == [s EXCEPT !.mp_state = "KVM_MP_STATE_RUNNABLE"]
  IN  [cpu |-> [k EXCEPT
                  !.sregs = t.sregs, !.regs = t.regs,
                  !.msrs = [m \in DOMAIN k.msrs |->
                              IF \E i \in DOMAIN t.msr_data : t.msr_data[i].index = m
                                THEN t.msr_data[CHOOSE i \in DOMAIN t.msr_data :
                                                  t.msr_data[i].index = m].data
                                ELSE k.msrs[m]],
                  !.xcrs = t.xcrs, !.mp_state = t.mp_state, !.lapic = t.lapic,
                  !.fpu = t.fpu, !.xsave = t.xsave, !.events = t.events],
       cpu_state |-> t]

\* a vCPU at the save, and the state of the vCPU the snapshot is restored
\* to; "IA32_TSC_DEADLINE" stands for the MSRs that are not in the list
InitCpu ==
  /\ Stopped
  /\ \E v \in 0 .. 1 : \E w \in 0 .. 1 :
       \E c \in [regs : { v }, sregs : { 1 - v }, fpu : { w }, lapic : { 1 - w },
                 xsave : 0 .. 1, xcrs : 0 .. 1, events : 0 .. 1,
                 mp_state : { "KVM_MP_STATE_RUNNABLE", "KVM_MP_STATE_HALTED" },
                 msrs : { << >> }] :
         \E b \in 0 .. 1 : \E later \in 0 .. 2 :
           LET names == { MsrList[i] : i \in DOMAIN MsrList }
                          \cup { "IA32_TSC_DEADLINE" }
               msrs(x) == [m \in names |-> IF m = "EFER" THEN 1 - x ELSE x]
               other(x) == [regs |-> x, sregs |-> x, fpu |-> x, lapic |-> x,
                            xsave |-> x, xcrs |-> x, events |-> x,
                            mp_state |-> IF x = 0 THEN "KVM_MP_STATE_RUNNABLE"
                                                  ELSE "KVM_MP_STATE_HALTED",
                            msrs |-> msrs(x)]
           IN  inp = [fn |-> "save_cpu_state",
                      cpu |-> [c EXCEPT !.msrs = msrs(b)],
                      later |-> other(later)]
  /\ out = Idle

\* cpu.save_cpu_state()
SaveCpuState ==
  /\ inp.fn = "save_cpu_state" /\ out = Idle
  /\ out' = [fn |-> "save_cpu_state", cpu_state |-> save_cpu_state(inp.cpu)]
  /\ UNCHANGED << vmv, inp >>

\* cpu.restore_cpu_state(&mut cpu_state), all ioctls succeeding
RestoreCpuState ==
  /\ out.fn = "save_cpu_state"
  /\ out' = [fn |-> "restore_cpu_state", saved |-> out.cpu_state,
             res |-> restore_cpu_state(inp.later, out.cpu_state)]
  /\ UNCHANGED << vmv, inp >>

SpecCpu == InitCpu /\ [][SaveCpuState \/ RestoreCpuState]_vars

(* ------------------------------------------- VirtualMachine::restore_cpus *)
\* the longest list of vCPU states handed to restore_cpus
MaxStates == 3

\* a state of a vCPU in the kernel, by a number
KernelState(x) ==
  [regs |-> x, sregs |-> x, fpu |-> x, lapic |-> x, xsave |-> x, xcrs |-> x,
   events |-> x,
   mp_state |-> IF x = 0 THEN "KVM_MP_STATE_RUNNABLE" ELSE "KVM_MP_STATE_HALTED",
   msrs |-> [m \in { MsrList[i] : i \in DOMAIN MsrList } \cup { "IA32_TSC_DEADLINE" }
               |-> IF m = "EFER" THEN x + 1 ELSE x]]

\* mutant: every vCPU is restored from the first state of the list
restore_cpus_first(vcpus, cpu_states, fail) ==
  IF Len(cpu_states) < Cardinality(DOMAIN vcpus)
    THEN [res |-> "VCPUStatesNotInitialized", vcpus |-> vcpus]
    ELSE [res |-> IF fail \in DOMAIN vcpus THEN "IOCTL" ELSE "Ok",
          vcpus |-> [i \in DOMAIN vcpus |->
                       IF fail \in DOMAIN vcpus /\ i >= fail
                         THEN vcpus[i]
                         ELSE restore_cpu_state(vcpus[i], cpu_states[1]).cpu]]

\* restore_cpus(&mut cpu_states) on the vCPUs vcpus, a function of their ids
\* (create_cpus pushes them in the order of their ids); fail is the id of
\* the vCPU whose setup_cpuid fails, which ends the loop, or -1
restore_cpus(vcpus, cpu_states, fail) ==
  IF Len(cpu_states) < Cardinality(DOMAIN vcpus)
    THEN [res |-> "VCPUStatesNotInitialized", vcpus |-> vcpus]
    ELSE [res |-> IF fail \in DOMAIN vcpus THEN "IOCTL" ELSE "Ok",
          vcpus |-> [i \in DOMAIN vcpus |->
                       IF fail \in DOMAIN vcpus /\ i >= fail
                         THEN vcpus[i]
                         ELSE restore_cpu_state(vcpus[i], cpu_states[i + 1]).cpu]]

\* the vCPUs of a virtual machine that was just created and a list of saved
\* states of any length
InitRestore ==
  /\ Stopped
  /\ \E n \in 1 .. NumCpus : \E l \in 0 .. MaxStates : \E fail \in -1 .. (n - 1) :
       \E xs \in [1 .. l -> 0 .. 2] :
         inp = [fn |-> "restore_cpus",
                vcpus |-> [i \in 0 .. (n - 1) |-> KernelState(3 + i)],
                cpu_states |-> [j \in 1 .. l |-> save_cpu_state(KernelState(xs[j]))],
                fail |-> fail]
  /\ out = Idle

RestoreCpus ==
  /\ inp.fn = "restore_cpus" /\ out = Idle
  /\ out' = [fn |-> "restore_cpus",
             r |-> restore_cpus(inp.vcpus, inp.cpu_states, inp.fail)]
  /\ UNCHANGED << vmv, inp >>

SpecRestore == InitRestore /\ [][RestoreCpus]_vars

(* ------------------------------- VirtualMachine::new and init_sregs *)
\* sizes of guest memory are counted in MiB, addresses of the guest in bytes
KVM_32BIT_MAX_MEM_SIZE == 4096
KVM_32BIT_GAP_SIZE == 768
KVM_32BIT_GAP_START == KVM_32BIT_MAX_MEM_SIZE - KVM_32BIT_GAP_SIZE

GUEST_SIZE == 536870912
BOOT_PML4 == 65536
BOOT_PDPTE == 69632
BOOT_PDE == 73728
LargePageSize == 2097152

\* a control register is the set of the numbers of its bits that are set, and
\* a mask of one bit is the number of that bit
X86_CR0_PE == 0
X86_CR0_PG == 31
X86_CR4_PAE == 5
EFER_LME == 8
EFER_LMA == 10

\* the bits of a page table entry
X86_PDPT_P == 1
X86_PDPT_RW == 2
X86_PDPT_PS == 128

\* the mapping that backs the guest: its length, and the part of it that
\* mprotect has made PROT_NONE, as the offsets [from, to)
new(size) ==
  IF size < KVM_32BIT_GAP_START
    THEN [len |-> size, none |-> << 0, 0 >>]
    ELSE [len |-> size + KVM_32BIT_GAP_START,
          none |-> << KVM_32BIT_GAP_START, KVM_32BIT_GAP_START + KVM_32BIT_GAP_START >>]

\* tables in which pdpte[0] still refers to BOOT_PDE
setup_system_page_tables_keeps_pde(sregs) ==
  LET zero == [i \in 0 .. 511 |-> 0]
  IN  [tables |-> [a \in { BOOT_PML4, BOOT_PDPTE, BOOT_PDE } |->
                     IF a = BOOT_PML4
                       THEN [zero EXCEPT ![0] = BOOT_PDPTE + X86_PDPT_P + X86_PDPT_RW]
                     ELSE IF a = BOOT_PDPTE
                       THEN [i \in 0 .. 511 |->
                               IF i = 0 THEN BOOT_PDE + X86_PDPT_P + X86_PDPT_RW
                               ELSE IF i < GUEST_SIZE \div LargePageSize
                                 THEN i * LargePageSize + X86_PDPT_P + X86_PDPT_RW
                                        + X86_PDPT_PS
                               ELSE 0]
                     ELSE zero],
       sregs |-> [sregs EXCEPT !.cr3 = BOOT_PML4,
                               !.cr4 = @ \cup { X86_CR4_PAE },
                               !.cr0 = @ \cup { X86_CR0_PG }]]

\* the three tables in guest memory, by their addresses, and the sregs
setup_system_page_tables(sregs) ==
  LET zero == [i \in 0 .. 511 |-> 0]
      pml4 == [zero EXCEPT ![0] = BOOT_PDPTE + X86_PDPT_P + X86_PDPT_RW]
      pdpte0 == [zero EXCEPT ![0] = BOOT_PDE + X86_PDPT_P + X86_PDPT_RW]
      pdpte == [i \in 0 .. 511 |->
                  IF i < GUEST_SIZE \div LargePageSize
                    THEN i * LargePageSize + X86_PDPT_P + X86_PDPT_RW + X86_PDPT_PS
                    ELSE pdpte0[i]]
  IN  [tables |-> [a \in { BOOT_PML4, BOOT_PDPTE, BOOT_PDE } |->
                     IF a = BOOT_PML4 THEN pml4
                     ELSE IF a = BOOT_PDPTE THEN pdpte ELSE zero],
       sregs |-> [sregs EXCEPT !.cr3 = BOOT_PML4,
                               !.cr4 = @ \cup { X86_CR4_PAE },
                               !.cr0 = @ \cup { X86_CR0_PG }]]

setup_system_64bit(sregs) ==
  [sregs EXCEPT !.cr0 = @ \cup { X86_CR0_PE }, !.cr4 = @ \cup { X86_CR4_PAE },
                !.efer = @ \cup { EFER_LME, EFER_LMA }]

\* the walk of the processor for the address va; the PS bit of an entry of
\* the page directory pointer table maps a page of 1 GiB on a processor that
\* has such pages (page1gb) and is reserved on one that has not
PageWalk(tables, cr3, va, page1gb) ==
  LET Entry(base, i) == IF base \in DOMAIN tables THEN tables[base][i] ELSE 0
      Has(e, bit) == ((e \div bit) % 2) = 1
      Addr(e) == (e \div 4096) * 4096
      fault == [ok |-> FALSE, pa |-> 0, writable |-> FALSE, large |-> FALSE]
      l4 == Entry(cr3, ((va \div 2^30) \div 512) % 512)
      l3 == Entry(Addr(l4), (va \div 2^30) % 512)
      l2 == Entry(Addr(l3), (va \div 2^21) % 512)
      l1 == Entry(Addr(l2), (va \div 2^12) % 512)
  IN  IF ~Has(l4, X86_PDPT_P) \/ Has(l4, X86_PDPT_PS) \/ ~Has(l3, X86_PDPT_P)
        THEN fault
      ELSE IF Has(l3, X86_PDPT_PS)
        THEN IF page1gb /\ (Addr(l3) % 2^30) = 0
               THEN [ok |-> TRUE, pa |-> Addr(l3) + (va % 2^30), large |-> TRUE,
                     writable |-> Has(l4, X86_PDPT_RW) /\ Has(l3, X86_PDPT_RW)]
               ELSE fault
      ELSE IF ~Has(l2, X86_PDPT_P)
        THEN fault
      ELSE IF Has(l2, X86_PDPT_PS)
        THEN IF (Addr(l2) % 2^21) = 0
               THEN [ok |-> TRUE, pa |-> Addr(l2) + (va % 2^21), large |-> TRUE,
                     writable |-> Has(l4, X86_PDPT_RW) /\ Has(l3, X86_PDPT_RW)
                                    /\ Has(l2, X86_PDPT_RW)]
               ELSE fault
      ELSE IF ~Has(l1, X86_PDPT_P)
        THEN fault
      ELSE [ok |-> TRUE, pa |-> Addr(l1) + (va % 2^12), large |-> FALSE,
            writable |-> Has(l4, X86_PDPT_RW) /\ Has(l3, X86_PDPT_RW)
                           /\ Has(l2, X86_PDPT_RW) /\ Has(l1, X86_PDPT_RW)]

\* the size asked for, the sregs of vCPU 0 before init_cpus, the processor,
\* and an address of the guest to look at
InitBoot ==
  /\ Stopped
  /\ \E size \in { 1, KVM_32BIT_GAP_START - 1, KVM_32BIT_GAP_START,
                   KVM_32BIT_GAP_START + 1, KVM_32BIT_MAX_MEM_SIZE,
                   KVM_32BIT_MAX_MEM_SIZE + KVM_32BIT_GAP_START } :
       \E cr0 \in { { }, { 4, 29, 30 } } : \E page1gb \in BOOLEAN :
         \E va \in { 0, 4095, BOOT_PML4, LargePageSize - 1, LargePageSize,
                     GUEST_SIZE \div 2, GUEST_SIZE - 1 } :
           inp = [fn |-> "new", size |-> size, va |-> va, page1gb |-> page1gb,
                  sregs |-> [cr0 |-> cr0, cr3 |-> 0, cr4 |-> { }, efer |-> { }]]
  /\ out = Idle

\* VirtualMachine::new(.., size, ..)
New ==
  /\ inp.fn = "new" /\ out = Idle
  /\ out' = [fn |-> "new", mem |-> new(inp.size)]
  /\ UNCHANGED << vmv, inp >>

\* init_sregs: the page tables, then the 64 bit mode
InitSregs ==
  /\ out.fn = "new"
  /\ out' = [fn |-> "init_sregs", mem |-> out.mem,
             tables |-> setup_system_page_tables(inp.sregs).tables,
             sregs |-> setup_system_64bit(setup_system_page_tables(inp.sregs).sregs)]
  /\ UNCHANGED << vmv, inp >>

\* the memory regions init() registers with set_user_memory_region, in the
\* order of the calls; userspace_addr is counted from mem.as_ptr(), and
\* mem_size() is the length of the mapping
init(mem) ==
  IF mem.len <= KVM_32BIT_GAP_START
    THEN << [slot |-> 0, guest_phys_addr |-> 0, memory_size |-> mem.len,
             userspace_addr |-> 0] >>
    ELSE << [slot |-> 0, guest_phys_addr |-> 0, memory_size |-> KVM_32BIT_GAP_START,
             userspace_addr |-> 0],
            [slot |-> 1, guest_phys_addr |-> KVM_32BIT_GAP_START + KVM_32BIT_GAP_SIZE,
             memory_size |-> mem.len - KVM_32BIT_GAP_SIZE - KVM_32BIT_GAP_START,
             userspace_addr |-> KVM_32BIT_GAP_START + KVM_32BIT_GAP_SIZE] >>

\* VirtualMachine::init(): the memory regions of the mapping of new()
InitRegions ==
  /\ out.fn = "new"
  /\ out' = [fn |-> "init", mem |-> out.mem, regions |-> init(out.mem)]
  /\ UNCHANGED << vmv, inp >>

SpecBoot == InitBoot /\ [][New \/ InitSregs \/ InitRegions]_vars

(* ------------------------------------------------------------ parse_mem *)
\* the characters x with x.is_numeric() that a text of the model can hold
DecimalDigits == { "0", "1", "2", "3", "4", "5", "6", "7", "8", "9" }

\* num.parse::<u64>() of a text of digits
ParseDecimal(num) ==
  Value([i \in 1 .. Len(num) |->
           CHOOSE d \in 0 .. 9 :
             num[i] = << "0", "1", "2", "3", "4", "5", "6", "7", "8", "9" >>[d + 1]], 10)

\* parse_mem of the text mem, a sequence of characters. A u64 is held as
\* [num, shift], the value num * 2^shift, so that a product up to 2^64 is
\* exact; in a build with overflow checks a product beyond the u64 panics,
\* in a build without them it wraps
parse_mem(mem, overflow_checks) ==
  LET is_numeric(x) == x \in DecimalDigits
      num == SelectSeq(mem, is_numeric)
      postfix == SelectSeq(mem, LAMBDA x : ~is_numeric(x))
      n == ParseDecimal(num)
      shift == CASE postfix \in { << "E" >>, << "e" >> } -> 60
                 [] postfix \in { << "P" >>, << "p" >> } -> 50
                 [] postfix \in { << "T" >>, << "t" >> } -> 40
                 [] postfix \in { << "G" >>, << "g" >> } -> 30
                 [] postfix \in { << "M" >>, << "m" >> } -> 20
                 [] postfix \in { << "K" >>, << "k" >> } -> 10
                 [] OTHER -> 0
      room == IF 64 - shift > 30 THEN 2^30 ELSE 2^(64 - shift)
  IN  IF num = << >> \/ shift = 0
        THEN [ok |-> FALSE, err |-> "ParseMemory", num |-> 0, shift |-> 0]
      ELSE IF n >= room /\ overflow_checks
        THEN [ok |-> FALSE, err |-> "panic", num |-> 0, shift |-> 0]
      ELSE [ok |-> TRUE, err |-> "", num |-> n % room, shift |-> shift]

\* parse_mem(text) for a text of the command line
ParseMem ==
  /\ inp.fn = "parse_mem" /\ out = Idle
  /\ out' = [fn |-> "parse_mem", res |-> parse_mem(inp.mem, inp.overflow_checks)]
  /\ UNCHANGED << vmv, inp >>

InitMem ==
  /\ Stopped /\ out = Idle
  /\ \E l \in 0 .. MaxText : \E mem \in [1 .. l -> { "1", "6", "K", "M", "E", "m", "X" }] :
       \E b \in BOOLEAN : inp = [fn |-> "parse_mem", mem |-> mem, overflow_checks |-> b]

SpecMem == InitMem /\ [][ParseMem]_vars

(* -------------------------------------------- NetworkInterface::set_mac *)
\* set_mac(mac) with the six random bytes guest_mac: the 18 bytes of
\* self.mac, or the panic of copy_from_slice for a text that is not 17 bytes
set_mac(mac, guest_mac) ==
  LET RECURSIVE scan(_, _, _)
      \* the loop over the characters from the k-th on, with the counts i, s
      scan(k, i, s) ==
        IF k > Len(mac.text) THEN << i, s >>
        ELSE IF mac.text[k] \in DecimalDigits \cup { "a", "b", "c", "d", "e", "f" }
          THEN scan(k + 1, i + 1, s)
        ELSE IF mac.text[k] = ":"
          THEN IF (i \div 2) # s + 1 THEN << i, s + 1 >> ELSE scan(k + 1, i, s + 1)
        ELSE scan(k + 1, i, -1)
      counts == scan(1, 0, 0)
      hex == << "0", "1", "2", "3", "4", "5", "6", "7", "8", "9",
                "a", "b", "c", "d", "e", "f" >>
      \* guest_mac[0] &= 0xfe; guest_mac[0] |= 0x02
      byte0 == (guest_mac[1] \div 4) * 4 + 2
      bytes == [guest_mac EXCEPT ![1] = byte0]
      mac_addr == [n \in 1 .. 17 |->
                     IF n % 3 = 0 THEN ":"
                     ELSE IF n % 3 = 1 THEN hex[(bytes[(n + 2) \div 3] \div 16) + 1]
                     ELSE hex[(bytes[(n + 2) \div 3] % 16) + 1]]
  IN  IF mac.some /\ counts = << 12, 5 >>
        THEN IF Len(mac.text) = 17
               THEN [panic |-> FALSE, supplied |-> TRUE, mac |-> Append(mac.text, "NUL")]
               ELSE [panic |-> TRUE, supplied |-> TRUE, mac |-> << >>]
        ELSE [panic |-> FALSE, supplied |-> FALSE, mac |-> Append(mac_addr, "NUL")]

\* NetworkInterface::new calls set_mac on the fresh interface
SetMac ==
  /\ inp.fn = "set_mac" /\ out = Idle
  /\ out' = [fn |-> "set_mac", res |-> set_mac(inp.mac, inp.guest_mac)]
  /\ UNCHANGED << vmv, inp >>

\* the texts under study: an optional character that is no hex digit, then
\* five to seven groups of one to MaxGroup hex digits joined by colons, and
\* an optional colon at the end; or no MAC at all
InitMac ==
  /\ Stopped /\ out = Idle
  /\ \E b \in { 0, 1, 254, 255 } : \E some \in BOOLEAN : \E junk \in BOOLEAN :
       \E colon \in BOOLEAN : \E n \in 5 .. 7 : \E g \in [1 .. n -> 1 .. MaxGroup] :
         LET RECURSIVE join(_)
             join(k) == IF k = 0 THEN IF junk THEN << "g", ":" >> ELSE << >>
                        ELSE join(k - 1) \o (IF k = 1 THEN << >> ELSE << ":" >>)
                               \o [j \in 1 .. g[k] |-> IF k % 2 = 0 THEN "b" ELSE "7"]
         IN  inp = [fn |-> "set_mac",
                    mac |-> [some |-> some,
                             text |-> IF some THEN join(n) \o (IF colon THEN << ":" >> ELSE << >>)
                                      ELSE << >>],
                    guest_mac |-> << b, 0, 171, 0, 0, 255 >>]

SpecMac == InitMac /\ [][SetMac]_vars

(* ---------------------------------------------------------- load_kernel *)
\* mutant: the machine of the header is not looked at
HeaderAcceptedAnyMachine(ehdr) ==
  ~(ehdr.class # "ELFCLASS64" \/ ehdr.osabi # 66 \/ ehdr.elftype # "ET_EXEC")

\* the test of the ELF header, 0x42 being the OSABI of HermitCore
HeaderAccepted(ehdr) ==
  ~(\/ ehdr.class # "ELFCLASS64"
    \/ ehdr.osabi # 66
    \/ ehdr.elftype # "ET_EXEC"
    \/ ehdr.machine # "EM_X86_64")

\* load_kernel(path) on the VM vm = [elf_entry, mboot, klog, mem], with the
\* guest memory as one cell per loadable address: the result and the VM
\* after the call. A program header is [load, paddr]; utils::cpufreq() can
\* fail while the boot information of the first segment is written
load_kernel(vm, file, cpufreq) ==
  LET loads == SelectSeq(file.phdrs, LAMBDA h : h.load)
      copied(n) == [a \in DOMAIN vm.mem |->
                      IF \E j \in 1 .. n : loads[j].paddr = a THEN "kernel" ELSE vm.mem[a]]
  IN  IF ~file.readable \/ ~file.elf \/ ~HeaderAccepted(file.ehdr)
        THEN [res |-> "InvalidFile", vm |-> vm]
      ELSE IF loads = << >>
        THEN [res |-> "Ok", vm |-> [vm EXCEPT !.elf_entry = file.ehdr.entry]]
      ELSE IF ~cpufreq
        THEN [res |-> "MissingFrequency",
              vm |-> [vm EXCEPT !.elf_entry = file.ehdr.entry, !.mem = copied(1)]]
      ELSE [res |-> "Ok",
            vm |-> [elf_entry |-> file.ehdr.entry, mboot |-> loads[1].paddr,
                    klog |-> loads[1].paddr + 20480, mem |-> copied(Len(loads))]]

\* vm.load_kernel(path)
LoadKernel ==
  /\ inp.fn = "load_kernel" /\ out = Idle
  /\ out' = [fn |-> "load_kernel", res |-> load_kernel(inp.vm, inp.file, inp.cpufreq)]
  /\ UNCHANGED << vmv, inp >>

\* a fresh VM, or one that holds an earlier kernel, and a file
InitElf ==
  /\ Stopped /\ out = Idle
  /\ \E vm \in { [elf_entry |-> -1, mboot |-> -1, klog |-> -1,
                  mem |-> [a \in { 0, MaxEntry } |-> "zero"]],
                 [elf_entry |-> 0, mboot |-> 0, klog |-> 20480,
                  mem |-> [a \in { 0, MaxEntry } |-> IF a = 0 THEN "old" ELSE "zero"]] } :
       \E ehdr \in [class : { "ELFCLASS32", "ELFCLASS64" }, osabi : { 0, 66 },
                    elftype : { "ET_EXEC", "ET_DYN" },
                    machine : { "EM_X86_64", "EM_AARCH64" }, entry : { MaxEntry }] :
         \E phdrs \in { << >>, << [load |-> TRUE, paddr |-> MaxEntry] >>,
                        << [load |-> FALSE, paddr |-> 0], [load |-> TRUE, paddr |-> MaxEntry],
                           [load |-> TRUE, paddr |-> 0] >> } :
           \E ok \in [1 .. 3 -> BOOLEAN] :
             inp = [fn |-> "load_kernel", vm |-> vm, cpufreq |-> ok[3],
                    file |-> [readable |-> ok[1], elf |-> ok[2], ehdr |-> ehdr,
                              phdrs |-> phdrs]]

SpecElf == InitElf /\ [][LoadKernel]_vars

(* ------------------------------------------------- the start of the vCPUs *)
\* a cold boot of NumCpus + 1 vCPUs up to the run ioctl of each of them, with
\* the guest raising mboot[0x20]
SpecStart ==
  /\ InitState(Config(NumCpus + 1, 0, FALSE, FALSE, { }, { }, { }))
  /\ inp = Idle /\ out = Idle
  /\ [][\/ RunStart \/ Spawn
        \/ \E i \in CPUs : VcpuSpin(i) \/ VcpuSigaction(i) \/ VcpuBlock(i)
                             \/ VcpuLoop(i) \/ GuestOnline(i)]_vars

(* ------------------------------ scan_page_tables and load_checkpoint *)
\* the guest's tables hold EntriesPerTable entries (512 in the build), a u32
\* has U32Bits bits (32 in the build); a guest page has MaxData + 1 versions,
\* the MaxFail-th write_all of a scan may fail, a run of the model holds at
\* most MaxCreate calls of create_checkpoint and MaxRestart restarts
EntriesPerTable == 2
U32Bits == 2
MaxData == 1
MaxCreate == 2
MaxRestart == 1
MaxFail == 2
BasePageSize == LargePageSize \div 512
U32Max == 2 ^ U32Bits - 1

\* guest memory in frames: the kernel at elf_entry = 0, its PML4 one base
\* page above, a PDPT, a PGD, a PGT, two base pages and one large page
Frames == 0 .. 7
ZeroEntry == [p |-> FALSE, hp |-> FALSE, a |-> FALSE, d |-> FALSE, addr |-> 0]
ZeroPage == [ent |-> [k \in 1 .. EntriesPerTable |-> ZeroEntry], val |-> 0]
NoFile == << >>

\* the tables of the booted kernel: pml4[1] -> pdpt[1] -> pgd; pgd[1] -> pgt,
\* pgd[2] a large page; the last entry of the PML4 refers to the PML4 itself
\* when selfref
GuestTables(selfref, l1, l2, l3) ==
  LET T(a) == [p |-> TRUE, hp |-> FALSE, a |-> TRUE, d |-> FALSE, addr |-> a]
      Tab(e1, e2) ==
        [ent |-> [k \in 1 .. EntriesPerTable |->
                    IF k = 1 THEN e1 ELSE IF k = EntriesPerTable THEN e2 ELSE ZeroEntry],
         val |-> 0]
  IN  [f \in Frames |->
         CASE f = 1 -> Tab(T(2), IF selfref THEN T(1) ELSE ZeroEntry)
           [] f = 2 -> Tab(T(3), ZeroEntry)
           [] f = 3 -> Tab(T(4), [l3 EXCEPT !.hp = TRUE, !.addr = 7])
           [] f = 4 -> Tab([l1 EXCEPT !.addr = 5], [l2 EXCEPT !.addr = 6])
           [] OTHER -> ZeroPage]

\* the leaf slots of these tables the guest touches after its boot, as
\* (frame of the table, index): a base page and the large page
LeafSlots == { << 4, 1 >>, << 3, EntriesPerTable >> }

\* a witness that is ACCESSED whatever the mode and the generation
witness_accessed(vm) == "ACCESSED"

\* the flag scan_page_tables looks for
witness(vm) ==
  IF ~vm.full /\ vm.checkpoint_num > 0 THEN "DIRTY" ELSE "ACCESSED"

\* a serialized copy that keeps bit 7 of the live entry
pgte_tmp_live(e) == e

\* the copy of a base-page leaf that is serialized: HUGE_PAGE cleared
pgte_tmp(e) == [e EXCEPT !.hp = FALSE]

\* scan_page_tables: the walk from the PML4 at elf_entry + BasePageSize;
\* the fail-th write_all fails (none when fail = 0).  The file is the
\* sequence of the write_all calls: a PageTableEntry, then the bytes of the
\* page (its length, and the frame as it is read after the flags are cleared)
scan_page_tables(vm, fail) ==
  LET has(e) == IF witness(vm) = "DIRTY" THEN e.d ELSE e.a
      Record(st, frame, idx, huge) ==
        LET live == st.mem[frame].ent[idx]
            e    == IF vm.full THEN live ELSE [live EXCEPT !.a = FALSE, !.d = FALSE]
            mem1 == [st.mem EXCEPT ![frame].ent[idx] = e]
            tmp  == IF huge THEN e ELSE pgte_tmp(e)
            len  == IF huge THEN LargePageSize ELSE BasePageSize
            n    == Len(st.file)
        IN  IF fail = n + 1
              THEN [res |-> "WriteCheckpoint", mem |-> mem1, file |-> st.file]
            ELSE IF fail = n + 2
              THEN [res |-> "WriteCheckpoint", mem |-> mem1,
                    file |-> Append(st.file, [tag |-> "entry", e |-> tmp])]
            ELSE [res |-> "Ok", mem |-> mem1,
                  file |-> st.file \o << [tag |-> "entry", e |-> tmp],
                                         [tag |-> "data", len |-> len,
                                          page |-> mem1[e.addr]] >>]
      RECURSIVE Scan(_, _)
      Scan(n, st) ==
        IF n = EntriesPerTable ^ 4 \/ st.res # "Ok" THEN st
        ELSE LET E     == EntriesPerTable
                 pml4e == st.mem[vm.elf_entry + 1].ent[n \div (E ^ 3) + 1]
                 pdpte == st.mem[pml4e.addr].ent[((n \div (E ^ 2)) % E) + 1]
                 pgde  == st.mem[pdpte.addr].ent[((n \div E) % E) + 1]
                 pgte  == st.mem[pgde.addr].ent[(n % E) + 1]
             IN  IF ~pml4e.p \/ ~pdpte.p \/ ~pgde.p THEN Scan(n + 1, st)
                 ELSE IF ~pgde.hp
                   THEN IF pgte.p /\ has(pgte)
                          THEN Scan(n + 1, Record(st, pgde.addr, (n % E) + 1, FALSE))
                          ELSE Scan(n + 1, st)
                 ELSE IF (n % E) = 0 /\ has(pgde)
                   THEN Scan(n + 1, Record(st, pdpte.addr, ((n \div E) % E) + 1, TRUE))
                   ELSE Scan(n + 1, st)
  IN  IF vm.elf_entry < 0
        THEN [res |-> "KernelNotLoaded", mem |-> vm.mem, file |-> << >>]
        ELSE Scan(0, [res |-> "Ok", mem |-> vm.mem, file |-> << >>])

\* a load_checkpoint that replays the generations in descending order
load_checkpoint_descending(vm, chk, dir, overflow_checks) ==
  LET RECURSIVE Back(_, _)
      Back(i, mem) ==
        IF i < 0 THEN mem
        ELSE LET f == dir.mem[i]
                 RECURSIVE Read(_, _)
                 Read(pos, m) ==
                   IF pos + 1 > Len(f) THEN m
                   ELSE Read(pos + 2, [m EXCEPT ![f[pos].e.addr] = f[pos + 1].page])
             IN  Back(i - 1, Read(2, mem))
  IN  [res |-> "Ok", aligned |-> TRUE,
       vm |-> [vm EXCEPT !.elf_entry = chk.elf_entry,
                         !.checkpoint_num = chk.checkpoint_number + 1,
                         !.mem = Back(chk.checkpoint_number, vm.mem)]]

\* load_checkpoint: chk_num + 1 overflows for chk_num = U32Max (a panic with
\* overflow checks, 0 without); a file is a clock header and tuples up to
\* the end of the file.  aligned is FALSE once a read has taken bytes that
\* were not written as what they are read as
load_checkpoint(vm, chk, dir, overflow_checks) ==
  LET chk_num == chk.checkpoint_number
      start   == IF chk.full THEN chk_num ELSE 0
      end     == (chk_num + 1) % (U32Max + 1)
      RECURSIVE Read(_, _, _)
      Read(f, pos, st) ==
        IF pos > Len(f) THEN st
        ELSE IF f[pos].tag # "entry" THEN [st EXCEPT !.aligned = FALSE]
        ELSE LET location == f[pos].e
                 len == IF location.hp THEN LargePageSize ELSE BasePageSize
             IN  IF pos + 1 > Len(f) THEN [st EXCEPT !.res = "InvalidFile"]
                 ELSE IF f[pos + 1].tag # "data" \/ f[pos + 1].len # len
                   THEN [st EXCEPT !.aligned = FALSE]
                 ELSE Read(f, pos + 2,
                           [st EXCEPT !.vm.mem[location.addr] = f[pos + 1].page])
      RECURSIVE Replay(_, _)
      Replay(i, st) ==
        IF i >= end \/ st.res # "Ok" \/ ~st.aligned THEN st
        ELSE IF dir.mem[i] = NoFile THEN [st EXCEPT !.res = "InvalidFile"]
        ELSE LET f  == dir.mem[i]
                 s1 == IF vm.cap_adjust_clock_stable /\ i = chk_num
                         THEN [st EXCEPT !.vm.set_clock = Append(@, f[1].clock)]
                         ELSE st
             IN  Replay(i + 1, Read(f, 2, s1))
      st0 == [res |-> "Ok", aligned |-> TRUE,
              vm |-> [vm EXCEPT !.elf_entry = chk.elf_entry]]
      st1 == Replay(start, st0)
  IN  IF chk_num = U32Max /\ overflow_checks THEN [st0 EXCEPT !.res = "panic"]
      ELSE IF st1.res = "Ok" /\ st1.aligned
        THEN [st1 EXCEPT !.vm.checkpoint_num = end]
        ELSE st1

\* the virtual machine of a cold boot that has loaded its kernel
ColdVm(full, mem) ==
  [mem |-> mem, elf_entry |-> 0, full |-> full, checkpoint_num |-> 0,
   cap_adjust_clock_stable |-> FALSE, set_clock |-> << >>, alive |-> TRUE]

EmptyDir ==
  [mem |-> [g \in 0 .. U32Max |-> NoFile], core |-> { }, config |-> Idle]

\* the guest reads (w = FALSE) or writes (w = TRUE) the page of a leaf slot:
\* the MMU sets ACCESSED, and DIRTY on a write
GuestTouch(slot, w) ==
  /\ out.fn # "none" /\ out.vm.alive
  /\ LET t == slot[1]
         e == out.vm.mem[t].ent[slot[2]]
     IN  /\ out.vm.mem[1].ent[1].p /\ out.vm.mem[2].ent[1].p
         /\ t = 4 => out.vm.mem[3].ent[1].p
         /\ e.p /\ (w \/ ~e.a)
         /\ w => out.vm.mem[e.addr].val < MaxData
         /\ out' = [fn |-> "guest", dir |-> out.dir, created |-> out.created,
                     restarts |-> out.restarts, restored |-> out.restored,
                     vm |-> [out.vm EXCEPT !.mem = [@ EXCEPT
                       ![t].ent[slot[2]] = [e EXCEPT !.a = TRUE, !.d = (e.d \/ w)],
                       ![e.addr].val = IF w THEN @ + 1 ELSE @]]]
  /\ UNCHANGED << vmv, inp >>

\* create_checkpoint: File::create of the mem file, the clock header (the
\* guest clock, which is clock at this call), scan_page_tables, chk.save()
\* and, when all succeeded, checkpoint_num += 1
CreateCheckpoint(clock, fail) ==
  /\ out.fn # "none" /\ out.vm.alive
  /\ out.vm.checkpoint_num < U32Max /\ out.created < MaxCreate
  /\ LET n == out.vm.checkpoint_num
         r == scan_page_tables(out.vm, fail)
         d == out.dir
     IN  out' = [fn |-> "create_checkpoint", pre |-> out.vm, predir |-> d,
                 res |-> r.res, file |-> r.file,
                 created |-> out.created + 1, restarts |-> out.restarts,
                 restored |-> out.restored,
                 vm |-> [out.vm EXCEPT
                           !.mem = r.mem,
                           !.checkpoint_num = IF r.res = "Ok" THEN n + 1 ELSE n],
                 dir |-> IF r.res = "Ok"
                   THEN [mem |-> [d.mem EXCEPT ![n] = << [tag |-> "clock", clock |-> clock] >> \o r.file],
                         core |-> d.core \cup { n },
                         config |-> [checkpoint_number |-> n, elf_entry |-> out.vm.elf_entry,
                                     full |-> out.vm.full]]
                   ELSE [d EXCEPT !.mem[n] = << [tag |-> "clock", clock |-> clock] >> \o r.file]]
  /\ UNCHANGED << vmv, inp >>

\* uhyve is started again on the checkpoint directory: a new virtual
\* machine loads the configuration chk; restored is the generation it was
\* restored from
LoadCheckpoint(chk, cap, overflow_checks) ==
  /\ out.fn # "none" /\ out.restarts < MaxRestart
  /\ LET fresh == [mem |-> [f \in Frames |-> ZeroPage], elf_entry |-> -1,
                   full |-> inp.full, checkpoint_num |-> 0,
                   cap_adjust_clock_stable |-> cap, set_clock |-> << >>,
                   alive |-> TRUE]
         r == load_checkpoint(fresh, chk, out.dir, overflow_checks)
     IN  out' = [fn |-> "load_checkpoint", pre |-> fresh, predir |-> out.dir,
                 chk |-> chk, res |-> r.res, aligned |-> r.aligned,
                 created |-> out.created, restarts |-> out.restarts + 1,
                 restored |-> IF r.res = "Ok" THEN chk.checkpoint_number ELSE -1,
                 vm |-> [r.vm EXCEPT !.alive = (r.res = "Ok" /\ r.aligned)],
                 dir |-> out.dir]
  /\ UNCHANGED << vmv, inp >>

\* a cold boot, then the guest, checkpoints and restarts from the directory
InitScan ==
  /\ Stopped
  /\ \E full, selfref \in BOOLEAN :
     \E l1, l2, l3 \in { e \in [p : BOOLEAN, hp : BOOLEAN, a : BOOLEAN,
                                d : { FALSE }, addr : { 0 }] : e.a => e.p } :
       /\ ~l2.hp /\ l2.a /\ ~l3.hp /\ l3.p
       /\ inp = [fn |-> "scan", full |-> full, selfref |-> selfref]
       /\ out = [fn |-> "boot", vm |-> ColdVm(full, GuestTables(selfref, l1, l2, l3)),
                 dir |-> EmptyDir, created |-> 0, restarts |-> 0, restored |-> -1]

SpecScan ==
  /\ InitScan
  /\ [][\/ \E slot \in LeafSlots, w \in BOOLEAN : GuestTouch(slot, w)
        \/ \E fail \in { 0, MaxFail } : CreateCheckpoint(out.created + 1, fail)
        \/ \E n \in 0 .. U32Max, full, cap, oc \in BOOLEAN :
             LoadCheckpoint([checkpoint_number |-> n, elf_entry |-> 0, full |-> full],
                            cap, oc)]_vars

(* ================================================================ claims *)
\* the main thread is between the two barrier waits of handle_checkpoint or
\* handle_migration
InFreeze == mpc \in { "h_work", "h_clear", "h_bar2" }

\* the vCPU thread is inside the run ioctl or executes a hypercall handler
InGuest(i) == pc[i] \in { "ioctl", "syscall", "notify" }

\* C1: while the main thread is between its two barrier waits, no vCPU thread
\* is inside the run ioctl or executes a hypercall handler
C1_FreezeExcludesGuest == InFreeze => \A i \in CPUs : ~InGuest(i)

\* C1 (witness): the checkpoint work is running, both vCPUs have run guest
\* code before and now wait at the second barrier
C1_Witness ==
  /\ mpc = "h_clear" /\ freeze = "checkpoint"
  /\ \A i \in CPUs : pc[i] = "wait2"

\* C2: once interrupt is set and SIGUSR2 has been sent to every vCPU thread,
\* both barrier waits of the main thread return
C2_FreezeCompletes == (mpc = "h_bar1") ~> (mpc = "h_ret")

\* C3: when handle_checkpoint returns, checkpoint_num is one greater than
\* when it was called and interrupt is false
C3_CheckpointCounts ==
  (mpc = "h_ret" /\ freeze = "checkpoint")
    => (checkpoint_num = num_before + 1 /\ ~interrupt)

\* C3 (amended): when handle_checkpoint returns, interrupt is false and
\* checkpoint_num is one greater than when it was called if create_checkpoint
\* returned Ok, and unchanged if it returned an error
C3_CheckpointCountsOnSuccess ==
  (mpc = "h_ret" /\ freeze = "checkpoint")
    => /\ ~interrupt
       /\ checkpoint_num = num_before + (IF work_ok THEN 1 ELSE 0)

\* C3 (witness): handle_checkpoint returns after a checkpoint was written
C3_Witness ==
  mpc = "h_ret" /\ freeze = "checkpoint" /\ work_ok /\ checkpoint_num = 1

\* the guest of vCPU i has executed the Exit hypercall (port 0x540)
ExitRequested(i) ==
  /\ pc[i] = "syscall"
  /\ kvm_run[i] = [exit_reason |-> "IO", port |-> PORT_EXIT]

\* C4: when the guest executes the Exit hypercall on any vCPU, the main loop
\* breaks, every vCPU thread is joined and run() returns
C4_ExitTerminates ==
  (\E i \in 0 .. (NumCpus - 1) : ExitRequested(i)) ~> (mpc = "done")

\* the run ioctl of vCPU i has failed with an errno other than EINTR
RunFailed(i) ==
  /\ pc[i] = "store"
  /\ exitcode[i].err.kind \in { "TranslationFault", "IOCTL" }

\* C5: when the run ioctl fails on any vCPU, running becomes false and all
\* vCPU threads are eventually joined by stop()
C5_RunErrorStops ==
  (\E i \in 0 .. (NumCpus - 1) : RunFailed(i))
    ~> (mpc = "done" /\ ~running /\ thread_handles = << >>)

\* the thread of vCPU i returned Cause(Err(..))
ReturnedErr(i) == exitcode[i].tag = "Cause" /\ exitcode[i].err.kind # "none"

\* C6: when stop() has returned, running is false, every vCPU thread is
\* joined, and the result is an error exactly when one of them returned
\* Cause(Err)
C6_StopReportsErrors ==
  mpc = "done"
    => /\ ~running
       /\ thread_handles = << >>
       /\ \A i \in CPUs : pc[i] = "returned"
       /\ (result = "Err") <=> (\E i \in CPUs : ReturnedErr(i))
       /\ result \in { "Ok", "Err" }

\* C6 (witness): stop() returned an error although the thread joined last
\* (vCPU 0) returned Innocent
C6_Witness ==
  /\ mpc = "done" /\ result = "Err"
  /\ exitcode[0] = Innocent
  /\ \E i \in CPUs : ReturnedErr(i)

\* C7: when create_checkpoint or run_migration fails inside a freeze, the
\* second barrier releases every vCPU with interrupt cleared and running still
\* true, and the main thread goes back to its select loop
C7_FailedFreezeResumes ==
  [][ /\ ( /\ mpc \in { "h_bar2", "h_wait2" } /\ ~work_ok
           /\ generation_id' # generation_id )
         => /\ running' /\ ~interrupt'
            /\ \A i \in CPUs : pc'[i] \in { "wait2", "unmask" }
      /\ ( mpc = "h_ret" /\ ~work_ok /\ mpc' # mpc )
         => mpc' = "select" ]_vars

\* C7 (witness): a failed checkpoint has returned and every vCPU is back in
\* the run ioctl
C7_Witness ==
  /\ mpc = "h_ret" /\ ~work_ok /\ freeze = "checkpoint"
  /\ \A i \in CPUs : pc[i] = "ioctl"

\* C8: after an exit with reason HLT the vCPU thread ends with cause Ok(0)
\* and stop() reports no error
C8_HltIsCleanExit ==
  /\ \A i \in CPUs :
       (kvm_run[i].exit_reason = "HLT" /\ pc[i] \in { "store", "ret", "returned" })
         => exitcode[i] = CauseOk(0)
  /\ (mpc = "done" /\ \A i \in CPUs :
                        ReturnedErr(i) => kvm_run[i].exit_reason = "HLT")
       => result = "Ok"

\* the run page of vCPU i holds a port-I/O exit on a port that is none of
\* the thirteen hypercall ports
UnknownIo(i) ==
  kvm_run[i].exit_reason = "IO" /\ kvm_run[i].port \notin HypercallPorts

\* C9: a port-I/O exit on an unknown port makes from_mem return a Protocol
\* error that holds the port number, no handler runs, and the thread
\* returns Cause(Err) with running set to false
C9_UnknownPortFatal ==
  /\ [](\A i \in CPUs :
          (UnknownIo(i) /\ pc[i] \in { "store", "ret", "returned" })
            => /\ exitcode[i].tag = "Cause"
               /\ exitcode[i].err.kind = "Protocol"
               /\ exitcode[i].err.port = kvm_run[i].port
               /\ pc[i] # "store" => ~running)
  /\ [][ \A i \in CPUs :
           (UnknownIo(i) /\ pc[i] = "syscall" /\ pc'[i] # pc[i])
             => /\ pc'[i] = "store"
                /\ args'[i] = args[i] /\ hostret'[i] = hostret[i]
                /\ tap' = tap /\ pollpc' = pollpc ]_vars

\* C9 (witness): the thread has returned after an exit on port 0x401
C9_Witness ==
  \E i \in CPUs : UnknownIo(i) /\ pc[i] = "returned" /\ kvm_run[i].port = 1025

\* the request in the run page of vCPU i
Request(i) ==
  IF kvm_run[i].exit_reason = "IO" THEN PortSyscall(kvm_run[i].port) ELSE "Other"

\* the field of the argument block in which the guest finds the result
ResultField(sc, a) ==
  CASE sc = "Write" -> a.len
    [] sc = "LSeek" -> a.offset
    [] OTHER -> a.ret

\* vCPU i takes the step that runs one of the seven requests, and its host
\* call fails
FailingRequest(i) ==
  /\ pc[i] = "syscall" /\ pc'[i] # pc[i]
  /\ Request(i) \in { "Write", "Read", "Open", "Close", "LSeek", "NetWrite",
                      "NetRead" }
  /\ HostCall(Request(i), args[i])
  /\ hostret'[i] < 0

\* the request neither ends the thread nor touches running
NoHostError(i) ==
  /\ pc'[i] \in { "loop", "notify" }
  /\ exitcode'[i] = NoExit
  /\ running' = running

C12_CloseSparesStd ==
  out.fn = "Close"
    => IF inp.args.fd <= 2
         THEN out.ret.args.ret = 0 /\ out.host = NoHostOp
         ELSE /\ out.ret.args.ret = inp.host
              /\ out.host = [fn |-> "close", fd |-> inp.args.fd, name |-> ""]

\* C12 (witness): a negative descriptor was answered with 0 although the host
\* close would have failed
C12_Witness ==
  /\ out.fn = "Close" /\ inp.args.fd = -1 /\ inp.host = -1
  /\ out.ret.args.ret = 0

\* the poll thread receives a token that notify() sends
TokenReceived ==
  \E i \in CPUs : pc[i] = "notify" /\ pc'[i] = "loop" /\ pollpc = "recv"

\* the eventfd is written only by the step after a successful poll, and that
\* step leaves the poll thread waiting on the channel
WriteThenWait ==
  irq' # irq => pollpc = "write" /\ pollpc' = "recv" /\ irq' = irq + 1

\* C13: after each write to the eventfd the poll thread neither polls the tap
\* nor writes the eventfd again until it has received a token sent by
\* notify()
C13_OneIrqPerAck ==
  [][ /\ WriteThenWait
      /\ (pollpc = "recv" /\ pollpc' # "recv") => TokenReceived ]_vars

\* C13 (amended): as long as the sending end of the channel exists, the poll
\* thread leaves its wait after a write only by receiving a token of
\* notify(); once the sender is dropped it goes on without one
C13_OneIrqPerAckWhileAlive ==
  [][ /\ WriteThenWait
      /\ (pollpc = "recv" /\ pollpc' # "recv")
           => (TokenReceived /\ ~SenderDropped) \/ SenderDropped ]_vars

\* C13 (witness): the eventfd was written a second time, after a token, while
\* the virtual machine runs
C13_Witness ==
  irq = 2 /\ pollpc = "recv" /\ ~SenderDropped /\ running

\* the generations of which the directory holds a mem file
MemGenerations == { f.gen : f \in { g \in out.files : g.kind = "mem" } }

\* the directory after k checkpoints, the last of generation k - 1
DirectoryOf(k) ==
  /\ MemGenerations = 0 .. (k - 1)
  /\ \A i \in 0 .. (inp.num_cpus - 1) : CoreFile(k - 1, i) \in out.files
  /\ ConfigFile \in out.files /\ out.config = k - 1

C16_MigrationRoundTrip ==
  (out.fn = "load_migration" /\ out.sent /\ out.res.ok) =>
    /\ out.mig.config
         = [get_checkpoint_config(inp.vm) EXCEPT !.checkpoint_number = 0]
    /\ out.res.mem = Items("ram", inp.vm.mem)
    /\ \A i \in 1 .. Len(inp.vm.mem) : out.res.mem[i].val = inp.vm.mem[i]
    /\ out.res.cpu_states = Items("vcpu", inp.vm.vcpus)
    /\ \A i \in 1 .. inp.vm.num_cpus :
         out.res.cpu_states[i].val = inp.vm.vcpus[i]

\* C16 (witness): two vCPUs with different states, two bytes of RAM and a
\* sender that had taken a checkpoint before have been migrated
C16_Witness ==
  /\ out.fn = "load_migration" /\ out.sent /\ out.res.ok
  /\ inp.vm.num_cpus = 2 /\ inp.vm.vcpus = << 0, 1 >>
  /\ inp.vm.mem = << 1, 0 >> /\ inp.vm.checkpoint_num = 1
  /\ out.mig.config.checkpoint_number = 0

\* C17: the stream carries a clock record iff both hosts have the stable
\* clock, the receiver reads one iff the sender wrote one, and so a
\* receiver of a complete stream neither runs out of stream nor leaves a
\* unit of it unread
C17_ClockDecisionsAgree ==
  (out.fn = "load_migration" /\ out.sent) =>
    /\ (\E i \in 1 .. Len(out.stream) : out.stream[i].kind = "clock")
         <=> (inp.vm.cap_adjust_clock_stable /\ inp.cap_adjust_clock_stable)
    /\ out.res.reads_clock <=> inp.vm.cap_adjust_clock_stable
    /\ out.res.ok
    /\ out.res.pos = Len(out.stream) + 1

\* C18: after restore_cpu_state(save_cpu_state()), the 14 MSRs of the list,
\* regs, sregs, fpu, lapic, xsave, xcrs, events and mp_state of the vCPU are
\* what they were before the save, and the snapshot is what save_cpu_state
\* returned
C18_CpuStateRoundTrip ==
  out.fn = "restore_cpu_state" =>
    /\ save_cpu_state(out.res.cpu) = save_cpu_state(inp.cpu)
    /\ out.res.cpu_state = out.saved

\* C18 (amended): the same for every component but mp_state, which is
\* KVM_MP_STATE_RUNNABLE in the vCPU and in the snapshot after the restore;
\* an MSR that is not in the list keeps the value it had before the restore
C18_CpuStateRoundTripButMpState ==
  out.fn = "restore_cpu_state" =>
    /\ save_cpu_state(out.res.cpu)
         = [save_cpu_state(inp.cpu) EXCEPT !.mp_state = "KVM_MP_STATE_RUNNABLE"]
    /\ out.res.cpu_state
         = [out.saved EXCEPT !.mp_state = "KVM_MP_STATE_RUNNABLE"]
    /\ out.res.cpu.msrs["IA32_TSC_DEADLINE"] = inp.later.msrs["IA32_TSC_DEADLINE"]

\* C18 (witness): a halted vCPU has been restored over a vCPU that differed
\* from it in every component
C18_Witness ==
  /\ out.fn = "restore_cpu_state"
  /\ inp.cpu.mp_state = "KVM_MP_STATE_HALTED"
  /\ \A f \in { "regs", "sregs", "fpu", "lapic", "xsave", "xcrs", "events" } :
       inp.later[f] # inp.cpu[f]
  /\ \A m \in DOMAIN inp.cpu.msrs : inp.later.msrs[m] # inp.cpu.msrs[m]
  /\ out.res.cpu.regs = inp.cpu.regs
  /\ out.res.cpu.mp_state = "KVM_MP_STATE_RUNNABLE"

\* C19: after init_sregs the walk from cr3 = BOOT_PML4 takes every address
\* of [0, GUEST_SIZE) to the same physical address through a present,
\* writable large page, and cr0.PE, cr0.PG, cr4.PAE, efer.LME and efer.LMA
\* are set
C19_IdentityLargePages ==
  (out.fn = "init_sregs" /\ inp.va < GUEST_SIZE) =>
    /\ out.sregs.cr3 = BOOT_PML4
    /\ PageWalk(out.tables, out.sregs.cr3, inp.va, inp.page1gb)
         = [ok |-> TRUE, pa |-> inp.va, writable |-> TRUE, large |-> TRUE]
    /\ { X86_CR0_PE, X86_CR0_PG } \subseteq out.sregs.cr0
    /\ X86_CR4_PAE \in out.sregs.cr4
    /\ { EFER_LME, EFER_LMA } \subseteq out.sregs.efer

\* C20: new(size) is one mapping of size bytes with nothing protected for
\* every size up to and including 3.25 GiB, and for a larger size a mapping
\* of size + 3.25 GiB whose no-access part is exactly [3.25 GiB, 4 GiB)
C20_MappingAndGap ==
  out.fn = "new" =>
    IF inp.size <= KVM_32BIT_GAP_START
      THEN out.mem = [len |-> inp.size, none |-> << 0, 0 >>]
      ELSE out.mem = [len |-> inp.size + KVM_32BIT_GAP_START,
                      none |-> << KVM_32BIT_GAP_START, KVM_32BIT_MAX_MEM_SIZE >>]

\* C21: parse_mem of a decimal number n followed by one of K, M, G, T, P, E
\* is n * 2^k for k = 10, 20, 30, 40, 50, 60, and every other text fails
\* with ParseMemory
C21_ParseMem ==
  out.fn = "parse_mem" =>
    LET l == Len(inp.mem)
        suffixes == << "K", "M", "G", "T", "P", "E" >>
        well == /\ l >= 2
                /\ \A i \in 1 .. (l - 1) : inp.mem[i] \in DecimalDigits
                /\ \E j \in 1 .. 6 : inp.mem[l] = suffixes[j]
    IN  IF well
          THEN out.res = [ok |-> TRUE, err |-> "",
                          num |-> ParseDecimal(SubSeq(inp.mem, 1, l - 1)),
                          shift |-> 10 * (CHOOSE j \in 1 .. 6 : inp.mem[l] = suffixes[j])]
          ELSE out.res.err = "ParseMemory"

\* C22: set_mac stores the supplied text iff it is six groups of two hex
\* digits separated by five colons; for every other text, and for none, it
\* stores a generated MAC; what is stored is always 17 characters and a NUL
C22_MacValidated ==
  out.fn = "set_mac" =>
    LET t == inp.mac.text
        well == /\ inp.mac.some /\ Len(t) = 17
                /\ \A n \in 1 .. 17 :
                     IF n % 3 = 0 THEN t[n] = ":"
                     ELSE t[n] \in DecimalDigits \cup { "a", "b", "c", "d", "e", "f" }
    IN  /\ ~out.res.panic
        /\ Len(out.res.mac) = 18 /\ out.res.mac[18] = "NUL"
        /\ out.res.supplied <=> well
        /\ well => SubSeq(out.res.mac, 1, 17) = t

\* C23: load_kernel returns InvalidFile for every ELF file whose header has
\* another class than 64 bit, another osabi than 0x42, another type than
\* EXEC or another machine than x86_64, and then elf_entry, mboot, klog and
\* the guest memory are what they were before the call
C23_BadHeaderRejected ==
  (/\ out.fn = "load_kernel" /\ inp.file.readable /\ inp.file.elf
   /\ \/ inp.file.ehdr.class # "ELFCLASS64" \/ inp.file.ehdr.osabi # 66
      \/ inp.file.ehdr.elftype # "ET_EXEC" \/ inp.file.ehdr.machine # "EM_X86_64")
    => out.res = [res |-> "InvalidFile", vm |-> inp.vm]

\* C23 (witness): a kernel for another machine, with a segment to load, was
\* rejected by a VM that holds an earlier kernel
C23_Witness ==
  /\ out.fn = "load_kernel" /\ out.res.res = "InvalidFile"
  /\ inp.file.readable /\ inp.file.elf /\ inp.cpufreq
  /\ inp.file.ehdr = [class |-> "ELFCLASS64", osabi |-> 66, elftype |-> "ET_EXEC",
                      machine |-> "EM_AARCH64", entry |-> MaxEntry]
  /\ Len(inp.file.phdrs) = 3 /\ inp.vm.elf_entry = 0
  /\ out.res.vm.mem[0] = "old"

\* C24: for every vCPU i > 0, thread i has not published its id at
\* mboot[0x30] and has not entered its run loop before vCPU i - 1 has
\* published its id
C24_StartupSerialized ==
  \A i \in CPUs \ { 0 } :
    pc[i] \notin { "unspawned", "spin" } => pc[i - 1] \notin { "unspawned", "spin" }

\* C24 (amended): a thread i > 0 that has published its id has read
\* mboot[0x20] >= i, and on a cold boot vCPU 0 has published before it
C24_StartupWaitsForCounter ==
  \A i \in CPUs \ { 0 } :
    pc[i] \notin { "unspawned", "spin" }
      => mboot20 >= i /\ pc[0] \notin { "unspawned", "spin" }

\* C24 (witness): the guest has raised the counter to 2 and thread 2 runs
\* the guest while thread 1 still waits
C24_Witness ==
  /\ cfg.num_cpus = NumCpus + 1
  /\ pc[2] = "ioctl" /\ pc[1] = "spin" /\ pc[0] = "ioctl" /\ mboot30 = 2

\* C25: in every state in which control.running is true, exactly num_cpus
\* vCPU threads exist (spawned and not returned), each with its own vCPU
C25_RunningMeansAllThreads ==
  (running /\ ~killed)
    => /\ \A i \in CPUs : pc[i] \notin { "unspawned", "returned" }
       /\ Len(thread_handles) = cfg.num_cpus
       /\ \A a, b \in 1 .. Len(thread_handles) :
            thread_handles[a] = thread_handles[b] => a = b

\* C25 (amended): while control.running is true no vCPU thread has returned,
\* the threads spawned so far own distinct vCPUs, and once run() has spawned
\* them all exactly num_cpus threads exist
C25_RunningAfterSpawnMeansAllThreads ==
  (running /\ ~killed)
    => /\ \A i \in CPUs : pc[i] # "returned"
       /\ \A a, b \in 1 .. Len(thread_handles) :
            thread_handles[a] = thread_handles[b] => a = b
       /\ mpc \notin { "run", "spawn", "failed" }
            => /\ \A i \in CPUs : pc[i] # "unspawned"
               /\ Len(thread_handles) = cfg.num_cpus

\* C25 (witness): run() waits in its select, every vCPU thread is in the
\* guest and one thread is about to clear control.running
C25_Witness ==
  /\ running /\ ~killed /\ mpc = "select"
  /\ Len(thread_handles) = cfg.num_cpus
  /\ pc[0] = "store" /\ \A i \in CPUs \ { 0 } : pc[i] = "ioctl"

\* the slots (frame of the table, index) at which a walk from the PML4 of
\* mem ends: the entries of a page table, and the large-page entries of a
\* page directory
LeafSlotsOf(mem, pml4) ==
  LET Idx == 1 .. EntriesPerTable
      Dirs == { g \in Frames : \E a, b \in Idx :
                  /\ mem[pml4].ent[a].p
                  /\ mem[mem[pml4].ent[a].addr].ent[b].p
                  /\ mem[mem[pml4].ent[a].addr].ent[b].addr = g }
  IN  { s \in Frames \X Idx :
          \E g \in Dirs, c \in Idx :
            /\ mem[g].ent[c].p
            /\ \/ mem[g].ent[c].hp /\ s = << g, c >>
               \/ ~mem[g].ent[c].hp /\ s[1] = mem[g].ent[c].addr }

\* C26: a successful scan_page_tables records exactly the present leaf
\* entries that carry the witness (DIRTY when incremental and checkpoint_num
\* > 0, ACCESSED otherwise); an incremental scan clears DIRTY and ACCESSED on
\* the recorded live entries and on no other, a full scan changes no entry
C26_ScanRecordsWitnessedLeaves ==
  (out.fn = "create_checkpoint" /\ out.res = "Ok")
    => LET pre  == out.pre
           Idx  == 1 .. EntriesPerTable
           W    == { s \in LeafSlotsOf(pre.mem, pre.elf_entry + 1) :
                       LET e == pre.mem[s[1]].ent[s[2]]
                       IN  e.p /\ IF ~pre.full /\ pre.checkpoint_num > 0
                                    THEN e.d ELSE e.a }
           Clr(e) == [e EXCEPT !.a = FALSE, !.d = FALSE]
           NoHp(e) == [e EXCEPT !.hp = FALSE]
           Tuples == { i \in 1 .. Len(out.file) : out.file[i].tag = "entry" }
       IN  /\ { NoHp(out.file[i].e) : i \in Tuples }
                = { NoHp(out.vm.mem[s[1]].ent[s[2]]) : s \in W }
           /\ ~pre.full => Cardinality(Tuples) = Cardinality(W)
           /\ \A f \in Frames, k \in Idx :
                out.vm.mem[f].ent[k] =
                  IF ~pre.full /\ << f, k >> \in W
                    THEN Clr(pre.mem[f].ent[k]) ELSE pre.mem[f].ent[k]
           /\ \A f \in Frames : out.vm.mem[f].val = pre.mem[f].val

\* C26 (witness): the second incremental checkpoint of a guest with a
\* self-referencing PML4 records a written page and leaves out a present
\* leaf that was read but not written since the first checkpoint
C26_Witness ==
  /\ out.fn = "create_checkpoint" /\ out.res = "Ok"
  /\ ~out.pre.full /\ out.pre.checkpoint_num = 1 /\ inp.selfref
  /\ out.pre.mem[4].ent[1].d /\ ~out.vm.mem[4].ent[1].d
  /\ LET e == out.pre.mem[3].ent[EntriesPerTable]
     IN  e.p /\ e.a /\ ~e.d /\ out.vm.mem[3].ent[EntriesPerTable] = e
  /\ Len(out.file) = 2

\* what the replay of the generations start .. n of dir into an empty
\* memory leaves in frame f: the bytes of the last tuple for f in the
\* highest generation that records f
ReplayedPage(dir, start, n, f) ==
  LET At(g) == { i \in 1 .. Len(dir.mem[g]) :
                   dir.mem[g][i].tag = "entry" /\ dir.mem[g][i].e.addr = f }
      Gens  == { g \in start .. n : At(g) # { } }
      Max(S) == CHOOSE x \in S : \A y \in S : y <= x
  IN  IF Gens = { } THEN ZeroPage
      ELSE dir.mem[Max(Gens)][Max(At(Max(Gens))) + 1].page

\* the same for a successful load of the configuration chk
ReplayedAsClaimed(chk) ==
  LET n     == chk.checkpoint_number
      start == IF chk.full THEN n ELSE 0
  IN  /\ \A g \in start .. n : out.predir.mem[g] # NoFile
      /\ \A f \in Frames : out.vm.mem[f] = ReplayedPage(out.predir, start, n, f)
      /\ out.vm.set_clock = IF out.vm.cap_adjust_clock_stable
                              THEN << out.predir.mem[n][1].clock >> ELSE << >>

\* C27: a successful load_checkpoint(cfg) has replayed the generations from
\* start (cfg.checkpoint_number when cfg.full, 0 otherwise) to
\* cfg.checkpoint_number in ascending order: every recorded page is at the
\* address of its entry with the bytes of the highest generation that
\* records it, and the clock is set from the final generation only, and only
\* with the stable-clock capability
C27_ReplayAscending ==
  (out.fn = "load_checkpoint" /\ out.res = "Ok") => ReplayedAsClaimed(out.chk)

\* C27 (below the largest u32): the same for cfg.checkpoint_number < U32Max
C27_ReplayAscendingBelowMax ==
  (out.fn = "load_checkpoint" /\ out.res = "Ok"
     /\ out.chk.checkpoint_number < U32Max) => ReplayedAsClaimed(out.chk)

\* C27 (case): an incremental load of generation 1 that takes a page from
\* generation 1 and another page from generation 0, with the clock set
C27_Witness ==
  /\ out.fn = "load_checkpoint" /\ out.res = "Ok"
  /\ out.chk.checkpoint_number = 1 /\ ~out.chk.full
  /\ out.vm.set_clock = << 2 >>
  /\ out.vm.mem[5].val = 1 /\ out.vm.mem[5] # ReplayedPage(out.predir, 0, 0, 5)
  /\ out.vm.mem[6] = ReplayedPage(out.predir, 0, 0, 6)
  /\ ReplayedPage(out.predir, 1, 1, 6) = ZeroPage
  /\ \E i \in 1 .. Len(out.predir.mem[0]) :
       out.predir.mem[0][i].tag = "entry" /\ out.predir.mem[0][i].e.addr = 6

\* C28: after a successful load_checkpoint(cfg), checkpoint_num is
\* cfg.checkpoint_number + 1, and a checkpoint taken after the restore is a
\* new generation: it leaves the mem and core files of the generations
\* 0 .. cfg.checkpoint_number as they were
C28_NextGenerationIsNew ==
  /\ (out.fn = "load_checkpoint" /\ out.res = "Ok")
       => out.vm.checkpoint_num = out.chk.checkpoint_number + 1
  /\ (out.fn = "create_checkpoint" /\ out.restored >= 0)
       => /\ out.pre.checkpoint_num > out.restored
          /\ \A g \in 0 .. out.restored : out.dir.mem[g] = out.predir.mem[g]

\* C28 (below the largest u32): the same for cfg.checkpoint_number < U32Max
C28_NextGenerationIsNewBelowMax ==
  /\ (out.fn = "load_checkpoint" /\ out.res = "Ok"
        /\ out.chk.checkpoint_number < U32Max)
       => out.vm.checkpoint_num = out.chk.checkpoint_number + 1
  /\ (out.fn = "create_checkpoint" /\ out.restored >= 0 /\ out.restored < U32Max)
       => /\ out.pre.checkpoint_num > out.restored
          /\ \A g \in 0 .. out.restored : out.dir.mem[g] = out.predir.mem[g]

\* C28 (case): a checkpoint taken after a restore from generation 0 that
\* writes generation 1 beside the mem file of generation 0
C28_Witness ==
  /\ out.fn = "create_checkpoint" /\ out.res = "Ok" /\ out.restored = 0
  /\ out.pre.checkpoint_num = 1
  /\ out.dir.mem[0] # NoFile /\ out.dir.mem[1] # NoFile /\ out.predir.mem[1] = NoFile

\* C29: in the file of a successful scan_page_tables every entry is followed
\* by the bytes of its page, 2 MiB exactly when the serialized entry has
\* HUGE_PAGE set and 4 KiB otherwise, and load_checkpoint reads every tuple
\* with the length it was written with, up to the end of the file
C29_StreamStaysAligned ==
  /\ (out.fn = "create_checkpoint" /\ out.res = "Ok")
       => /\ Len(out.file) % 2 = 0
          /\ \A i \in 1 .. Len(out.file) :
               IF i % 2 = 1
                 THEN out.file[i].tag = "entry"
                 ELSE /\ out.file[i].tag = "data"
                      /\ out.file[i].len = IF out.file[i - 1].e.hp
                                             THEN LargePageSize ELSE BasePageSize
  /\ out.fn = "load_checkpoint" => out.aligned

\* C29 (case): a load that reads a large-page tuple and the tuple of a base
\* page whose live entry has bit 7 set, as the restored page table shows
C29_Witness ==
  /\ out.fn = "load_checkpoint" /\ out.res = "Ok" /\ out.chk.checkpoint_number = 0
  /\ out.vm.mem[4].ent[1].p /\ out.vm.mem[4].ent[1].hp
  /\ \E i, j \in 1 .. Len(out.predir.mem[0]) :
       /\ out.predir.mem[0][i].tag = "entry" /\ out.predir.mem[0][i].e.hp
       /\ out.predir.mem[0][j].tag = "entry" /\ ~out.predir.mem[0][j].e.hp
       /\ out.predir.mem[0][j].e.addr = 5

\* C30: CheckpointConfig::from accepts a text only when its five key lines
\* are in the order number of cores, memory size, checkpoint number, entry
\* point, full checkpoint
C30_CanonicalOrderRequired ==
  (out.fn = "from" /\ inp.fn = "from" /\ out.res.ok)
    => \A i \in 1 .. 5 : inp.perm[i] = i

\* C30 (amended): the text is accepted exactly when each of the five keys
\* starts one of its lines, in whatever order the lines are, and the fields
\* are then those of the lines
C30_AnyOrderAccepted ==
  (out.fn = "from" /\ inp.fn = "from")
    => /\ out.res.ok <=> inp.drop = 0
       /\ out.res.ok => out.res.c = inp.c

\* C30 (witness): the five lines in reverse order are accepted
C30_Witness ==
  /\ out.fn = "from" /\ inp.fn = "from" /\ out.res.ok
  /\ \A i \in 1 .. 5 : inp.perm[i] = 6 - i
  /\ inp.c.checkpoint_number = MaxCalls /\ inp.c.full

\* C31: after setup_system_page_tables pml4[0] refers to BOOT_PDPTE with
\* PRESENT|WRITABLE, pdpte[i] holds i * 2 MiB with PRESENT|WRITABLE|HUGE_PAGE
\* for every i < GUEST_SIZE / 2 MiB, and every other entry of the three
\* tables is zero
C31_BootTables ==
  out.fn = "init_sregs"
    => \A a \in { BOOT_PML4, BOOT_PDPTE, BOOT_PDE } : \A i \in 0 .. 511 :
         out.tables[a][i] =
           IF a = BOOT_PML4 /\ i = 0 THEN BOOT_PDPTE + 3
           ELSE IF a = BOOT_PDPTE /\ i * 2097152 < GUEST_SIZE
             THEN i * 2097152 + 131
           ELSE 0

\* C31 (witness): the tables are written; the last large page of the guest
\* is entry 255 of the table at BOOT_PDPTE and entry 256 is empty
C31_Witness ==
  /\ out.fn = "init_sregs"
  /\ out.tables[BOOT_PDPTE][255] = 255 * 2097152 + 131
  /\ out.tables[BOOT_PDPTE][256] = 0 /\ out.tables[BOOT_PDPTE][0] = 131
  /\ out.tables[BOOT_PDE][0] = 0

\* C32: with a tap, a NetRead whose read fails sets ret to -1, leaves len
\* as it was and calls notify(), which hands exactly one token to the poll
\* thread; a NetRead whose read succeeds sets ret to 0 and len to the number
\* of bytes read and sends nothing
C32_NetReadRearms ==
  [][ \A i \in CPUs :
        /\ (pc[i] = "syscall" /\ pc'[i] # pc[i] /\ Request(i) = "NetRead"
              /\ cfg.netif)
             => IF hostret'[i] < 0
                  THEN /\ args'[i].ret = -1 /\ args'[i].len = args[i].len
                       /\ pc'[i] = "notify" /\ pollpc' = pollpc
                  ELSE /\ args'[i].ret = 0 /\ args'[i].len = hostret'[i]
                       /\ pc'[i] = "loop" /\ pollpc' = pollpc
        /\ (pc'[i] = "notify" /\ pc[i] # "notify")
             => pc[i] = "syscall" /\ Request(i) = "NetRead" /\ hostret'[i] < 0
        /\ (pc[i] = "notify" /\ pc'[i] # "notify")
             => /\ pc'[i] = "loop"
                /\ \/ pollpc = "recv" /\ pollpc' = "poll"
                   \/ pollpc = "stopped" /\ pollpc' = "stopped" ]_vars

\* C32 (witness): a NetRead on an empty tap has failed with ret -1 and its
\* token has sent the poll thread, which had raised the IRQ, back to poll()
C32_Witness ==
  \E i \in CPUs :
    /\ cfg.netif /\ Request(i) = "NetRead" /\ hostret[i] = -1
    /\ args[i].ret = -1 /\ args[i].len = 1
    /\ pc[i] = "loop" /\ pollpc = "poll" /\ irq = 1 /\ tap = 0

\* C33: the main loop starts handle_checkpoint on exactly the ticks whose
\* count is a positive multiple of the checkpoint interval, never with the
\* interval 0, and only when no freeze is in progress
C33_CheckpointOnInterval ==
  [][ /\ (mpc = "select" /\ tick' = tick + 1)
           => ((mpc' = "h_set" /\ freeze' = "checkpoint")
                 <=> (cfg.checkpoint > 0 /\ tick' % cfg.checkpoint = 0))
      /\ (freeze' = "checkpoint" /\ freeze # "checkpoint")
           => /\ mpc = "select" /\ freeze = "none" /\ ~interrupt
              /\ tick' = tick + 1 /\ cfg.checkpoint > 0
      /\ (mpc' = "h_set" /\ mpc # "h_set") => mpc = "select" ]_vars

\* C33 (witness): with the interval 2 the first tick has started nothing and
\* the second tick has started the first checkpoint
C33_Witness ==
  /\ cfg.checkpoint = 2 /\ tick = 2
  /\ mpc = "h_work" /\ freeze = "checkpoint" /\ checkpoint_num = 0

(* ------------------------------------------ handle_signal, handle_migration *)
\* the statement of the main thread that follows each statement of a freeze
FreezeSuccessors(at) ==
  CASE at = "h_set" -> { "h_kill" }
    [] at = "h_kill" -> { "h_kill", "h_bar1" }
    [] at = "h_bar1" -> { "h_wait1", "h_work" }
    [] at = "h_wait1" -> { "h_work" }
    [] at = "h_work" -> { "h_clear" }
    [] at = "h_clear" -> { "h_bar2" }
    [] at = "h_bar2" -> { "h_wait2", "h_ret" }
    [] at = "h_wait2" -> { "h_ret" }
    [] OTHER -> { }

C35_NoGuestAfterMigration ==
  \A i \in CPUs :
    (freeze = "migration" /\ work_ok /\ mpc = "h_ret" /\ running)
      => pc[i] # "ioctl"

\* C36: once the main loop has ended, running is false and SIGUSR2 was sent
\* to every vCPU thread, every vCPU thread returns and stop() finishes
\* joining, whatever the threads were doing (the process may also have been
\* ended by the signal)
C36_ShutdownTerminates ==
  (mpc = "stop") ~> (mpc = "done" \/ killed)

\* the same, for a shutdown that finds no thread in its startup wait
C36_ShutdownTerminatesAfterStartup ==
  (mpc = "stop" /\ \A i \in CPUs : pc[i] # "spin") ~> (mpc = "done" \/ killed)

(* ------------------------------------------------- NetRead and notify() *)
\* the poll thread is scheduled like every other thread; the tap is under no
\* obligation to deliver a packet
PollStep == PollOk \/ PollWrite \/ PollHangup

FairSpecIO ==
  /\ SpecIO
  /\ WF_vars(MainStep) /\ WF_vars(VcpuStep(0)) /\ WF_vars(Deliver(0))
  /\ WF_vars(PollStep) /\ WF_vars(Notify(0))

\* C37: a NetRead hypercall always returns to the run loop of its vCPU: the
\* send of notify() completes even when the poll thread is blocked in poll()
\* and no further packet arrives
C37_NetReadReturns ==
  (pc[0] = "notify") ~> (pc[0] # "notify" \/ killed)

\* the same, when the poll thread is not in poll() or a packet is waiting on
\* the tap (and the model still follows the interrupts)
C37_NetReadReturnsWithPacket ==
  (pc[0] = "notify" /\ (pollpc # "poll" \/ (tap > 0 /\ irq < MaxIrq)))
    ~> (pc[0] # "notify" \/ killed)

(* --------------------------------------------- a create_checkpoint that fails *)
\* C38: a create_checkpoint that fails leaves the checkpoint state as it
\* was: checkpoint_num is not advanced, the configuration file describes the
\* last completed generation, and the guest memory, the DIRTY and ACCESSED
\* flags of its page-table entries included, is what it was before the call
C38_FailedCheckpointChangesNothing ==
  (out.fn = "create_checkpoint" /\ out.res # "Ok")
    => /\ out.vm.checkpoint_num = out.pre.checkpoint_num
       /\ out.dir.config = out.predir.config
       /\ out.vm.mem = out.pre.mem

\* the part of it that holds when the scan is the step that fails
C38_FailedScanKeepsCounter ==
  (out.fn = "create_checkpoint" /\ out.res # "Ok")
    => out.vm.checkpoint_num = out.pre.checkpoint_num

(* ------------------------------------------------ the regions of init() *)
\* C39: for every memory size, each region init() registers lies outside
\* the MMIO gap [3.25 GiB, 4 GiB) of the guest, has the userspace address
\* mapping base + guest-physical address, lies inside the mapping of new()
\* and does not intersect the part of it that new() made no-access
C39_RegionsBacked ==
  out.fn = "init" =>
    \A k \in DOMAIN out.regions :
      LET r == out.regions[k]
          lo == r.guest_phys_addr
          hi == r.guest_phys_addr + r.memory_size
          hlo == r.userspace_addr
          hhi == r.userspace_addr + r.memory_size
      IN  /\ hi <= KVM_32BIT_GAP_START \/ lo >= KVM_32BIT_MAX_MEM_SIZE
          /\ r.userspace_addr = r.guest_phys_addr
          /\ hhi <= out.mem.len
          /\ hhi <= out.mem.none[1] \/ hlo >= out.mem.none[2]
                \/ out.mem.none[1] = out.mem.none[2]

\* all of it but the last part
C39_RegionsInsideMapping ==
  out.fn = "init" =>
    \A k \in DOMAIN out.regions :
      LET r == out.regions[k]
      IN  /\ \/ r.guest_phys_addr + r.memory_size <= KVM_32BIT_GAP_START
             \/ r.guest_phys_addr >= KVM_32BIT_MAX_MEM_SIZE
          /\ r.userspace_addr = r.guest_phys_addr
          /\ r.userspace_addr + r.memory_size <= out.mem.len

====
